---- MODULE Spec2Model ----
(***************************************************************************)
(* Model of the aptitude questionnaire core of bunya-search:               *)
(*   - the adaptive Likert selector (utils.ts, pickNextLikertQuestion),    *)
(*   - the questionnaire session of App (main.tsx),                        *)
(*   - the response aggregator memos of App (categoryScore, ...),          *)
(*   - the ScoreOptimizer WeightApplier (utils.ts, C# part),               *)
(*   - the ScoreOptimizer ScoreAnalyzer (utils.ts, C# part).               *)
(*                                                                         *)
(* Numbers.  The program computes with IEEE doubles; the model computes    *)
(* with exact rationals written as scaled integers:                        *)
(*   weights       in hundredths (weight 1.0 is 100),                      *)
(*   confidence    in tenths     (0.7 is 7),                               *)
(*   rank weights  in hundredths (1.0, 0.5, 0.25 are 100, 50, 25),         *)
(*   category and aptitude scores in units of 1/10000,                     *)
(*   tag scores    in units of 1/1000000.                                  *)
(* A score is a record [nan, v]; nan marks the IEEE NaN.                   *)
(***************************************************************************)
EXTENDS Integers, Sequences, FiniteSets, TLC

VARIABLES
  questionBank,     \* App: questionBank state (likert, forcedChoice, scenario)
  step,             \* App: step
  likertAnswers,    \* App: likertAnswers, entries in Object.entries order
  forcedAnswers,    \* App: forcedAnswers, entries in Object.entries order
  scenarioAnswers,  \* App: scenarioAnswers, entries in Object.entries order
  currentLikertId,  \* App: currentLikertId
  forcedIndex,      \* App: forcedIndex
  scenarioIndex,    \* App: scenarioIndex
  rankedOptions,    \* ScenarioStep: rankedOptions (keys, in displayed order)
  presented,        \* history: ids handed to setCurrentLikertId, in order
  pickIn,           \* selector call: arguments of pickNextLikertQuestion
  pickOut,          \* selector call: its result
  aggIn,            \* aggregator call: bank and answers
  aggOut,           \* aggregator call: categoryScore/aptitudeScores/tagScores
  files,            \* WeightApplier: the persisted catalog files
  applyRun,         \* WeightApplier: progress and result of one Apply call
  writers,          \* WeightApplier: two Apply calls at work on the same files
  analyzeIn,        \* ScoreAnalyzer: the response records given to Analyze
  analyzeOut,       \* ScoreAnalyzer: the AnalysisReport it returns
  alphaIn,          \* CronbachAlpha call: itemVariances and respondentCount
  alphaOut          \* CronbachAlpha call: its result

sessionVars == <<questionBank, step, likertAnswers, forcedAnswers,
                 scenarioAnswers, currentLikertId, forcedIndex, scenarioIndex,
                 rankedOptions, presented>>
pickVars == <<pickIn, pickOut>>
aggVars == <<aggIn, aggOut>>
applyVars == <<files, applyRun, writers>>
analyzeVars == <<analyzeIn, analyzeOut, alphaIn, alphaOut>>
vars == <<sessionVars, pickVars, aggVars, applyVars, analyzeVars>>

NULL == "NULL"

\* ---------------------------------------------------------------- bounds
\* Likert items in a session's question bank
MaxLikert == 3
\* length of the list given to a bare selector call
MaxPickLen == 3

\* ------------------------------------------------------------- utilities
Min(a, b) == IF a < b THEN a ELSE b
Abs(x) == IF x < 0 THEN 0 - x ELSE x
Range(s) == {s[i] : i \in 1..Len(s)}
Prefix(s, n) == SubSeq(s, 1, Min(n, Len(s)))
\* the sequences over S of length at most n
RECURSIVE SeqsUpTo(_, _)
SeqsUpTo(S, n) == IF n = 0 THEN {<<>>} ELSE [1..n -> S] \cup SeqsUpTo(S, n - 1)
Reverse(s) == [i \in 1..Len(s) |-> s[Len(s) + 1 - i]]

\* Array.prototype.find: the first element satisfying the test, as a
\* sequence of length 0 (undefined) or 1.
FindFirst(s, Test(_)) ==
  LET hits == SelectSeq(s, Test) IN IF hits = <<>> THEN <<>> ELSE <<hits[1]>>

\* ---------------------------------------------------- question bank data
Rel(axis, category, weight) ==
  [axis |-> axis, category |-> category, weight |-> weight]
Tag(name, weight) == [name |-> name, weight |-> weight]
WCat(axis, category, score, weight) ==
  [axis |-> axis, category |-> category, score |-> score, weight |-> weight]

LikertPool == <<
  [id |-> "L1", axis |-> "activity", primaryCategory |-> "eng",
   polarity |-> "positive", required |-> TRUE,
   relatedCategories |-> <<Rel("interest", "art", 50)>>,
   tags |-> <<Tag("t1", 100)>>],
  [id |-> "L2", axis |-> "activity", primaryCategory |-> "art",
   polarity |-> "reverse", required |-> FALSE,
   relatedCategories |-> <<>>,
   tags |-> <<Tag("t1", 50), Tag("t2", 100)>>],
  [id |-> "L3", axis |-> "interest", primaryCategory |-> "biz",
   polarity |-> "positive", required |-> TRUE,
   relatedCategories |-> <<Rel("learning_style", "eng", 30),
                           Rel("interest", "biz", 20)>>,
   tags |-> <<>>],
  [id |-> "L4", axis |-> "learning_style", primaryCategory |-> "eng",
   polarity |-> "reverse", required |-> FALSE,
   relatedCategories |-> <<>>,
   tags |-> <<Tag("t2", 50)>>] >>

Axes == {"activity", "interest", "learning_style"}
LikertScale == 1..7

\* ------------------------------------------------------ adaptive selector
\* AxisStats: a function from axis names to [sum, count]; an axis outside
\* its DOMAIN is a key the Map does not hold.
initialiseAxisStats(questions) ==
  [a \in {q.axis : q \in Range(questions)} |-> [sum |-> 0, count |-> 0]]

\* mutant: the reverse polarity is not flipped
Normalized_NoFlip(value, polarity) == value

Normalized(value, polarity) == IF polarity = "reverse" THEN 8 - value ELSE value

\* mutant: the entry of the axis is replaced, not added to
recordLikertStat_Replace(map, axis, value, polarity) ==
  [a \in DOMAIN map \cup {axis} |->
     IF a = axis THEN [sum |-> Normalized(value, polarity), count |-> 1] ELSE map[a]]

recordLikertStat(map, axis, value, polarity) ==
  LET stats == IF axis \in DOMAIN map THEN map[axis] ELSE [sum |-> 0, count |-> 0]
      next == [sum |-> stats.sum + Normalized(value, polarity),
               count |-> stats.count + 1]
  IN [a \in DOMAIN map \cup {axis} |-> IF a = axis THEN next ELSE map[a]]

RECURSIVE SumWeights(_)
SumWeights(rels) ==
  IF rels = <<>> THEN 0 ELSE rels[1].weight + SumWeights(Tail(rels))

\* mutant: the signed distance 4 - average instead of its absolute value
computeInformationGain_Signed(question, stats) ==
  IF question.axis \notin DOMAIN stats \/ stats[question.axis].count = 0
  THEN [num |-> 1, den |-> 1]
  ELSE [num |-> (4 * stats[question.axis].count - stats[question.axis].sum)
                  * (100 + SumWeights(question.relatedCategories)),
        den |-> stats[question.axis].count * 100]

\* The gain as an exact fraction num/den, den > 0.
\*   no observations:  1.0
\*   otherwise:        |4 - sum/count| * (1 + relatedWeight)
computeInformationGain(question, stats) ==
  IF question.axis \notin DOMAIN stats \/ stats[question.axis].count = 0
  THEN [num |-> 1, den |-> 1]
  ELSE LET axisState == stats[question.axis]
           relatedWeight == SumWeights(question.relatedCategories)
       IN [num |-> Abs(4 * axisState.count - axisState.sum) * (100 + relatedWeight),
           den |-> axisState.count * 100]

\* mutant: the comparator written the other way round, a.info - b.info
InfoCompare_Ascending(a, b) ==
  LET l == a.info.num * b.info.den
      r == b.info.num * a.info.den
  IN IF l < r THEN -1 ELSE IF l > r THEN 1 ELSE 0

\* sign of the comparator (a, b) => b.info - a.info
InfoCompare(a, b) ==
  LET l == b.info.num * a.info.den
      r == a.info.num * b.info.den
  IN IF l < r THEN -1 ELSE IF l > r THEN 1 ELSE 0

\* Array.prototype.sort is stable: insertion keeps equal elements in order.
RECURSIVE InsertByInfo(_, _)
InsertByInfo(sorted, x) ==
  IF sorted = <<>> THEN <<x>>
  ELSE IF InfoCompare(x, sorted[1]) < 0 THEN <<x>> \o sorted
  ELSE <<sorted[1]>> \o InsertByInfo(Tail(sorted), x)

RECURSIVE SortByInfo(_, _)
SortByInfo(done, todo) ==
  IF todo = <<>> THEN done
  ELSE SortByInfo(InsertByInfo(done, todo[1]), Tail(todo))

Answered(answers) == {answers[i].id : i \in 1..Len(answers)}

\* mutant: the filter drops the requiredOnly flag and keeps every
\* unanswered item
Candidates_IgnoreRequired(questions, answers, requiredOnly) ==
  LET answered == Answered(answers)
      Keep(q) == q.id \notin answered
  IN SelectSeq(questions, Keep)

\* mutant: the filter keeps required items only, whatever requiredOnly is
Candidates_RequiredAlways(questions, answers, requiredOnly) ==
  LET answered == Answered(answers)
      Keep(q) == q.id \notin answered /\ q.required
  IN SelectSeq(questions, Keep)

Candidates(questions, answers, requiredOnly) ==
  LET answered == Answered(answers)
      Keep(q) == q.id \notin answered /\ (~requiredOnly \/ q.required)
  IN SelectSeq(questions, Keep)

RankCandidates(candidates, stats) ==
  SortByInfo(<<>>, [i \in 1..Len(candidates) |->
                      [question |-> candidates[i],
                       info |-> computeInformationGain(candidates[i], stats)]])

\* mutant: no retry with requiredOnly = false
pickNextLikertQuestion_NoRetry(questions, answers, stats, requiredOnly) ==
  LET ranked == RankCandidates(Candidates(questions, answers, requiredOnly), stats)
  IN IF ranked = <<>> THEN <<>> ELSE <<ranked[1].question>>

\* Result: <<>> for undefined, <<q>> for the question q.
pickNextLikertQuestion(questions, answers, stats, requiredOnly) ==
  LET candidates == Candidates(questions, answers, requiredOnly)
      retry == Candidates(questions, answers, FALSE)
      chosen == IF candidates = <<>> /\ requiredOnly THEN retry ELSE candidates
      ranked == RankCandidates(chosen, stats)
  IN IF ranked = <<>> THEN <<>> ELSE <<ranked[1].question>>

recomputeAxisStats(questions, answers) ==
  LET RECURSIVE Fold(_, _)
      Fold(stats, todo) ==
        IF todo = <<>> THEN stats
        ELSE LET id == todo[1].id
                 Match(q) == q.id = id
                 question == FindFirst(questions, Match)
             IN Fold(IF question = <<>> THEN stats
                     ELSE recordLikertStat(stats, question[1].axis,
                                           todo[1].value, question[1].polarity),
                     Tail(todo))
  IN Fold(initialiseAxisStats(questions), answers)

\* ------------------------------------------------------- session data
ForcedPool == <<
  [id |-> "F1", options |-> <<
     [key |-> "A", primary |-> WCat("activity", "eng", 5, 100),
      secondary |-> <<WCat("interest", "art", 2, 50)>>,
      tags |-> <<Tag("t1", 100)>>],
     [key |-> "B", primary |-> WCat("interest", "biz", 3, 100),
      secondary |-> <<>>,
      tags |-> <<Tag("t2", 50)>>] >>],
  [id |-> "F2", options |-> <<
     [key |-> "A", primary |-> WCat("learning_style", "art", 4, 80),
      secondary |-> <<WCat("activity", "biz", 1, 100)>>,
      tags |-> <<>>],
     [key |-> "B", primary |-> WCat("interest", "eng", 2, 120),
      secondary |-> <<>>,
      tags |-> <<Tag("t1", 50)>>] >>] >>

ScenarioPool == <<
  [id |-> "SC-1", options |-> <<
     [key |-> "A", primary |-> WCat("activity", "eng", 4, 100),
      secondary |-> <<WCat("interest", "biz", 2, 50)>>,
      tags |-> <<Tag("t1", 100)>>],
     [key |-> "B", primary |-> WCat("interest", "art", 3, 100),
      secondary |-> <<>>,
      tags |-> <<Tag("t2", 100)>>],
     [key |-> "C", primary |-> WCat("learning_style", "biz", 2, 80),
      secondary |-> <<>>,
      tags |-> <<>>] >>],
  [id |-> "SC-2", options |-> <<
     [key |-> "A", primary |-> WCat("interest", "eng", 3, 100),
      secondary |-> <<>>,
      tags |-> <<>>],
     [key |-> "B", primary |-> WCat("activity", "art", 2, 100),
      secondary |-> <<>>,
      tags |-> <<Tag("t1", 50)>>],
     [key |-> "C", primary |-> WCat("interest", "biz", 4, 60),
      secondary |-> <<>>,
      tags |-> <<>>] >>],
  [id |-> "SC-3", options |-> <<
     [key |-> "A", primary |-> WCat("interest", "eng", 3, 100),
      secondary |-> <<>>,
      tags |-> <<>>],
     [key |-> "B", primary |-> WCat("activity", "art", 2, 100),
      secondary |-> <<>>,
      tags |-> <<Tag("t1", 50)>>],
     [key |-> "C", primary |-> WCat("interest", "eng", 4, 60),
      secondary |-> <<>>,
      tags |-> <<>>],
     [key |-> "D", primary |-> WCat("learning_style", "med", 5, 100),
      secondary |-> <<WCat("activity", "eng", 1, 100)>>,
      tags |-> <<Tag("t3", 100)>>] >>] >>

\* Values a respondent enters in a session (a sample of the 1..7 buttons
\* of LikertStep and of the 0.5..1.0 slider of ForcedChoiceStep).
SessionLikertValues == {4, 7}
SliderValues == {8}
DefaultConfidence == 7

Bank(l, f, s) == [likert |-> l, forcedChoice |-> f, scenario |-> s]

\* The question banks a session is run with: every Likert list up to
\* MaxLikert items with at most one forced-choice and one scenario question,
\* and banks with two forced-choice or two scenario questions.
LikertLists ==
  {Prefix(LikertPool, n) : n \in 0..MaxLikert}
    \cup {Prefix(Reverse(LikertPool), n) : n \in 0..MaxLikert}
Banks ==
  {Bank(l, Prefix(ForcedPool, m), Prefix(ScenarioPool, k)) :
     l \in LikertLists, m \in 0..1, k \in 0..1}
    \cup {Bank(Prefix(LikertPool, n), Prefix(ForcedPool, 2), <<>>) : n \in 0..1}
    \cup {Bank(<<>>, Prefix(ForcedPool, 1), Prefix(ScenarioPool, 2))}

\* ------------------------------------------------------------ App memos
\* {...prev, [key]: entry}: an existing key keeps its position.
PutEntry(entries, entry, SameKey(_)) ==
  IF \E i \in 1..Len(entries) : SameKey(entries[i])
  THEN [i \in 1..Len(entries) |->
          IF SameKey(entries[i]) THEN entry ELSE entries[i]]
  ELSE Append(entries, entry)

requiredLikertCount(bank) ==
  LET IsRequired(q) == q.required IN Len(SelectSeq(bank.likert, IsRequired))

\* main.tsx 198-202: answered ids that are ids of required questions
requiredLikertAnswered(bank, answers) ==
  LET requiredIds == {q.id : q \in {x \in Range(bank.likert) : x.required}}
      Hit(e) == e.id \in requiredIds
  IN Len(SelectSeq(answers, Hit))

likertComplete(bank, answers) ==
  requiredLikertAnswered(bank, answers) >= requiredLikertCount(bank)

currentLikertQuestion ==
  IF currentLikertId = NULL THEN <<>>
  ELSE LET Match(q) == q.id = currentLikertId
       IN FindFirst(questionBank.likert, Match)

forcedOrder == questionBank.forcedChoice
currentForcedQuestion ==
  IF forcedIndex + 1 <= Len(forcedOrder) THEN <<forcedOrder[forcedIndex + 1]>> ELSE <<>>
scenarioOrder == questionBank.scenario
currentScenarioQuestion ==
  IF scenarioIndex + 1 <= Len(scenarioOrder)
  THEN <<scenarioOrder[scenarioIndex + 1]>> ELSE <<>>

HasForced(answers, questionId, optionKey) ==
  \E i \in 1..Len(answers) : answers[i].key = <<questionId, optionKey>>
ForcedConfidence(answers, questionId, optionKey) ==
  LET i == CHOOSE j \in 1..Len(answers) : answers[j].key = <<questionId, optionKey>>
  IN answers[i].confidence

\* ------------------------------------------------------ ScenarioStep
IndexOf(s, x) ==
  IF \E i \in 1..Len(s) : s[i] = x
  THEN (CHOOSE i \in 1..Len(s) : s[i] = x /\ \A j \in 1..(i - 1) : s[j] # x) - 1
  ELSE -1

\* [...options].sort((a, b) => previous.indexOf(a.key) - previous.indexOf(b.key))
RECURSIVE InsertByRank(_, _, _)
InsertByRank(sorted, x, previous) ==
  IF sorted = <<>> THEN <<x>>
  ELSE IF IndexOf(previous, x) - IndexOf(previous, sorted[1]) < 0
       THEN <<x>> \o sorted
       ELSE <<sorted[1]>> \o InsertByRank(Tail(sorted), x, previous)

RECURSIVE SortByRank(_, _, _)
SortByRank(done, todo, previous) ==
  IF todo = <<>> THEN done
  ELSE SortByRank(InsertByRank(done, todo[1], previous), Tail(todo), previous)

OptionKeys(question) == [i \in 1..Len(question.options) |-> question.options[i].key]

\* ScenarioStep 26-38: the ranking shown when the step shows `question`
ShownRanking(question, answers) ==
  IF question = <<>> THEN <<>>
  ELSE LET Match(e) == e.id = question[1].id
           previous == FindFirst(answers, Match)
       IN IF previous = <<>> THEN OptionKeys(question[1])
          ELSE SortByRank(<<>>, OptionKeys(question[1]), previous[1].rankedOptions)

\* ------------------------------------------------------ idle components
PickIdle == pickIn = <<>> /\ pickOut = <<>>
AggIdle == aggIn = <<>> /\ aggOut = <<>>
ApplyIdle == files = <<>> /\ applyRun = <<>> /\ writers = <<>>
AlphaIdle == alphaIn = <<>> /\ alphaOut = <<>>
AnalyzeIdle == analyzeIn = <<>> /\ analyzeOut = <<>> /\ AlphaIdle

EmptyBank == [likert |-> <<>>, forcedChoice |-> <<>>, scenario |-> <<>>]
SessionIdle ==
  /\ questionBank = EmptyBank
  /\ step = "profile"
  /\ likertAnswers = <<>>
  /\ forcedAnswers = <<>>
  /\ scenarioAnswers = <<>>
  /\ currentLikertId = NULL
  /\ forcedIndex = 0
  /\ scenarioIndex = 0
  /\ rankedOptions = <<>>
  /\ presented = <<>>

\* ------------------------------------------------------------- session
\* App after the question bank has loaded and no draft was stored.
SessionInit ==
  /\ questionBank \in Banks
  /\ step = "profile"
  /\ likertAnswers = <<>>
  /\ forcedAnswers = <<>>
  /\ scenarioAnswers = <<>>
  /\ currentLikertId = NULL
  /\ forcedIndex = 0
  /\ scenarioIndex = 0
  /\ rankedOptions = <<>>
  /\ presented = <<>>

Init == SessionInit /\ PickIdle /\ AggIdle /\ ApplyIdle /\ AnalyzeIdle

likertStats == recomputeAxisStats(questionBank.likert, likertAnswers)

\* ProfileStep onProceed (main.tsx 750-753)
ProfileProceed ==
  /\ step = "profile"
  /\ step' = "likert"
  /\ UNCHANGED <<questionBank, likertAnswers, forcedAnswers, scenarioAnswers,
                 currentLikertId, forcedIndex, scenarioIndex, rankedOptions,
                 presented>>

\* the Likert selection effect (main.tsx 207-235)
LikertSelectEffect ==
  /\ step = "likert"
  /\ currentLikertId = NULL
  /\ LET needRequired == requiredLikertAnswered(questionBank, likertAnswers)
                           < requiredLikertCount(questionBank)
         next == pickNextLikertQuestion(questionBank.likert, likertAnswers,
                                        likertStats, needRequired)
     IN IF next # <<>>
        THEN /\ currentLikertId' = next[1].id
             /\ presented' = Append(presented, next[1].id)
             /\ UNCHANGED step
        ELSE /\ likertComplete(questionBank, likertAnswers)
             /\ step' = "forced-choice"
             /\ UNCHANGED <<currentLikertId, presented>>
  /\ UNCHANGED <<questionBank, likertAnswers, forcedAnswers, scenarioAnswers,
                 forcedIndex, scenarioIndex, rankedOptions>>

\* handleLikertAnswer (main.tsx 538-575)
handleLikertAnswer(value) ==
  /\ step = "likert"
  /\ currentLikertQuestion # <<>>
  /\ LET id == currentLikertQuestion[1].id
         SameKey(e) == e.id = id
         nextAnswers == PutEntry(likertAnswers, [id |-> id, value |-> value], SameKey)
         nextStats == recomputeAxisStats(questionBank.likert, nextAnswers)
         IsRequiredAnswer(e) ==
           LET Match(q) == q.id = e.id
               q == FindFirst(questionBank.likert, Match)
           IN q # <<>> /\ q[1].required
         requiredAnswered == Len(SelectSeq(nextAnswers, IsRequiredAnswer))
         needRequired == requiredAnswered < requiredLikertCount(questionBank)
         nextQuestion == pickNextLikertQuestion(questionBank.likert, nextAnswers,
                                                nextStats, needRequired)
     IN /\ likertAnswers' = nextAnswers
        /\ IF nextQuestion # <<>>
           THEN /\ currentLikertId' = nextQuestion[1].id
                /\ presented' = Append(presented, nextQuestion[1].id)
                /\ UNCHANGED step
           ELSE /\ currentLikertId' = NULL
                /\ step' = "forced-choice"
                /\ UNCHANGED presented
  /\ UNCHANGED <<questionBank, forcedAnswers, scenarioAnswers, forcedIndex,
                 scenarioIndex, rankedOptions>>

\* proceedForced (main.tsx 596-605); entering the scenario step mounts
\* ScenarioStep, whose effect (ScenarioStep.tsx 28-38) sets its ranking.
proceedForced ==
  LET nextIndex == forcedIndex + 1 IN
  IF nextIndex >= Len(forcedOrder)
  THEN /\ step' = "scenario"
       /\ rankedOptions' = ShownRanking(currentScenarioQuestion, scenarioAnswers)
       /\ UNCHANGED forcedIndex
  ELSE /\ forcedIndex' = nextIndex
       /\ UNCHANGED <<step, rankedOptions>>

\* handleForcedAnswer (main.tsx 577-584): the new forcedAnswers
ForcedPut(answers, questionId, optionKey, confidence) ==
  LET SameKey(e) == e.key = <<questionId, optionKey>>
  IN PutEntry(answers, [key |-> <<questionId, optionKey>>,
                        optionKey |-> optionKey, confidence |-> confidence], SameKey)

\* option card onClick (ForcedChoiceStep.tsx 55-57) -> handleForcedAnswer
handleForcedAnswer(optionKey) ==
  /\ step = "forced-choice"
  /\ currentForcedQuestion # <<>>
  /\ LET question == currentForcedQuestion[1]
     IN /\ optionKey \in Range(OptionKeys(question))
        /\ forcedAnswers' =
             ForcedPut(forcedAnswers, question.id, optionKey,
                       IF HasForced(forcedAnswers, question.id, optionKey)
                       THEN ForcedConfidence(forcedAnswers, question.id, optionKey)
                       ELSE DefaultConfidence)
  /\ UNCHANGED <<questionBank, step, likertAnswers, scenarioAnswers,
                 currentLikertId, forcedIndex, scenarioIndex, rankedOptions,
                 presented>>

\* Slider onChange (ForcedChoiceStep.tsx 79-86) -> handleForcedAnswer
ForcedSliderChange(value) ==
  /\ step = "forced-choice"
  /\ currentForcedQuestion # <<>>
  /\ LET question == currentForcedQuestion[1]
         Selected(o) == HasForced(forcedAnswers, question.id, o.key)
         selectedOption == FindFirst(question.options, Selected)
     IN /\ selectedOption # <<>>
        /\ forcedAnswers' =
             ForcedPut(forcedAnswers, question.id, selectedOption[1].key, value)
  /\ UNCHANGED <<questionBank, step, likertAnswers, scenarioAnswers,
                 currentLikertId, forcedIndex, scenarioIndex, rankedOptions,
                 presented>>

\* handleForcedSkip (main.tsx 586-594)
handleForcedSkip ==
  /\ step = "forced-choice"
  /\ currentForcedQuestion # <<>>
  /\ forcedAnswers' = ForcedPut(forcedAnswers, currentForcedQuestion[1].id, "SKIP", 0)
  /\ proceedForced
  /\ UNCHANGED <<questionBank, likertAnswers, scenarioAnswers, currentLikertId,
                 scenarioIndex, presented>>

\* the "next" button of ForcedChoiceStep (ForcedChoiceStep.tsx 94-104)
ForcedProceed ==
  /\ step = "forced-choice"
  /\ currentForcedQuestion # <<>>
  /\ \E o \in Range(currentForcedQuestion[1].options) :
       HasForced(forcedAnswers, currentForcedQuestion[1].id, o.key)
  /\ proceedForced
  /\ UNCHANGED <<questionBank, likertAnswers, forcedAnswers, scenarioAnswers,
                 currentLikertId, scenarioIndex, presented>>

\* moveOption (ScenarioStep.tsx 40-49); index is 0-based
moveOption(index, direction) ==
  /\ step = "scenario"
  /\ currentScenarioQuestion # <<>>
  /\ index \in 0..(Len(rankedOptions) - 1)
  /\ LET targetIndex == IF direction = "up" THEN index - 1 ELSE index + 1
     IN /\ ~(targetIndex < 0 \/ targetIndex >= Len(rankedOptions))
        /\ rankedOptions' =
             [i \in 1..Len(rankedOptions) |->
                IF i = index + 1 THEN rankedOptions[targetIndex + 1]
                ELSE IF i = targetIndex + 1 THEN rankedOptions[index + 1]
                ELSE rankedOptions[i]]
  /\ UNCHANGED <<questionBank, step, likertAnswers, forcedAnswers,
                 scenarioAnswers, currentLikertId, forcedIndex, scenarioIndex,
                 presented>>

\* handleProceed (ScenarioStep.tsx 51-55) -> handleScenarioAnswer
\* (main.tsx 607-613) and proceedScenario (main.tsx 615-623)
ScenarioProceed ==
  /\ step = "scenario"
  /\ currentScenarioQuestion # <<>>
  /\ LET question == currentScenarioQuestion[1]
         SameKey(e) == e.id = question.id
         nextAnswers == PutEntry(scenarioAnswers,
                                 [id |-> question.id, rankedOptions |-> rankedOptions],
                                 SameKey)
         nextIndex == scenarioIndex + 1
     IN /\ scenarioAnswers' = nextAnswers
        /\ IF nextIndex >= Len(scenarioOrder)
           THEN /\ step' = "result"
                /\ rankedOptions' = <<>>
                /\ UNCHANGED scenarioIndex
           ELSE /\ scenarioIndex' = nextIndex
                /\ rankedOptions' = ShownRanking(<<scenarioOrder[nextIndex + 1]>>,
                                                 nextAnswers)
                /\ UNCHANGED step
  /\ UNCHANGED <<questionBank, likertAnswers, forcedAnswers, currentLikertId,
                 forcedIndex, presented>>

\* ResultStep onReset (main.tsx 826)
ResultReset ==
  /\ step = "result"
  /\ step' = "profile"
  /\ UNCHANGED <<questionBank, likertAnswers, forcedAnswers, scenarioAnswers,
                 currentLikertId, forcedIndex, scenarioIndex, rankedOptions,
                 presented>>

\* resetAll (main.tsx 625-639), the Header's reset button
resetAll ==
  /\ step # "profile" \/ likertAnswers # <<>>
  /\ step' = "profile"
  /\ likertAnswers' = <<>>
  /\ forcedAnswers' = <<>>
  /\ scenarioAnswers' = <<>>
  /\ currentLikertId' = NULL
  /\ forcedIndex' = 0
  /\ scenarioIndex' = 0
  /\ rankedOptions' = <<>>
  /\ presented' = <<>>
  /\ UNCHANGED questionBank

SessionOnly == UNCHANGED <<pickVars, aggVars, applyVars, analyzeVars>>

Next ==
  \/ ProfileProceed /\ SessionOnly
  \/ LikertSelectEffect /\ SessionOnly
  \/ \E value \in SessionLikertValues : handleLikertAnswer(value) /\ SessionOnly
  \/ \E optionKey \in {"A", "B"} : handleForcedAnswer(optionKey) /\ SessionOnly
  \/ \E value \in SliderValues : ForcedSliderChange(value) /\ SessionOnly
  \/ handleForcedSkip /\ SessionOnly
  \/ ForcedProceed /\ SessionOnly
  \/ \E index \in 0..3, direction \in {"up", "down"} :
       moveOption(index, direction) /\ SessionOnly
  \/ ScenarioProceed /\ SessionOnly
  \/ ResultReset /\ SessionOnly
  \/ resetAll /\ SessionOnly

Spec == Init /\ [][Next]_vars

\* ------------------------------------------------- bare selector calls
\* Arguments of a call: a list of distinct pool items, an answers record
\* (only its keys matter to the selector; "ZZ" is the id of no question),
\* axis stats that need not stem from the answers, and requiredOnly.
DistinctSeqs(S, n) ==
  {s \in SeqsUpTo(S, n) :
     \A i, j \in 1..Len(s) : i # j => s[i] # s[j]}

AnswerIds == <<"L1", "L2", "L3", "L4", "ZZ">>
AnswersWithKeys(K) ==
  LET InK(id) == id \in K
      ids == SelectSeq(AnswerIds, InK)
  IN [i \in 1..Len(ids) |-> [id |-> ids[i], value |-> 4]]

StatChoices == {[sum |-> 0, count |-> 0], [sum |-> 5, count |-> 1],
                [sum |-> 7, count |-> 1], [sum |-> 7, count |-> 2]}
StatsInputs == [Axes -> StatChoices] \cup [Axes \ {"interest"} -> StatChoices]

PickInputs ==
  [questions : DistinctSeqs(Range(LikertPool), MaxPickLen),
   answers : {AnswersWithKeys(K) : K \in SUBSET Range(AnswerIds)},
   stats : StatsInputs,
   requiredOnly : BOOLEAN]

PickInit ==
  /\ pickIn \in PickInputs
  /\ pickOut = <<>>

\* one call of pickNextLikertQuestion; pickOut holds the returned value
PickCall ==
  /\ pickOut = <<>>
  /\ pickOut' = <<pickNextLikertQuestion(pickIn.questions, pickIn.answers,
                                         pickIn.stats, pickIn.requiredOnly)>>
  /\ UNCHANGED pickIn

InitPick == PickInit /\ SessionIdle /\ AggIdle /\ ApplyIdle /\ AnalyzeIdle
NextPick == PickCall /\ UNCHANGED <<sessionVars, aggVars, applyVars, analyzeVars>>
SpecPick == InitPick /\ [][NextPick]_vars

\* --------------------------------------------------- response aggregator
\* IEEE numbers that may be NaN
Num(v) == [nan |-> FALSE, v |-> v]
NaN == [nan |-> TRUE, v |-> 0]
AddNum(a, b) == IF a.nan \/ b.nan THEN NaN ELSE Num(a.v + b.v)

\* const weights = [1.0, 0.5, 0.25]; weights[index] is undefined from
\* index 3 on, and a product with undefined is NaN.  Hundredths.
RankWeights == <<100, 50, 25>>
RankProduct(amount, index) ==
  IF index + 1 <= Len(RankWeights) THEN Num(amount * RankWeights[index + 1]) ELSE NaN

\* mutant: the interest axis counts as well
AptitudeAxes_WithInterest == {"activity", "learning_style", "interest"}

AptitudeAxes == {"activity", "learning_style"}

\* addScore of categoryScore and aptitudeScores: a Map in insertion order
addScore(scores, key, value) ==
  IF \E i \in 1..Len(scores) : scores[i].key = key
  THEN [i \in 1..Len(scores) |->
          IF scores[i].key = key
          THEN [key |-> key, value |-> AddNum(scores[i].value, value)]
          ELSE scores[i]]
  ELSE Append(scores, [key |-> key, value |-> AddNum(Num(0), value)])

\* mutant: the question id is pushed on every call
addTagScore_PushAlways(scores, key, value, questionId) ==
  LET present == \E i \in 1..Len(scores) : scores[i].key = key
      base == IF present THEN scores
              ELSE Append(scores, [key |-> key, value |-> Num(0), questions |-> <<>>])
  IN [i \in 1..Len(base) |->
        IF base[i].key = key
        THEN [key |-> key,
              value |-> AddNum(base[i].value, value),
              questions |-> Append(base[i].questions, questionId)]
        ELSE base[i]]

\* addScore of tagScores: the entry also lists the contributing questions
addTagScore(scores, key, value, questionId) ==
  LET present == \E i \in 1..Len(scores) : scores[i].key = key
      base == IF present THEN scores
              ELSE Append(scores, [key |-> key, value |-> Num(0), questions |-> <<>>])
  IN [i \in 1..Len(base) |->
        IF base[i].key = key
        THEN [key |-> key,
              value |-> AddNum(base[i].value, value),
              questions |-> IF questionId \in Range(base[i].questions)
                            THEN base[i].questions
                            ELSE Append(base[i].questions, questionId)]
        ELSE base[i]]

\* What one answer adds, as a list of [axis, category, value] in the order
\* of the addScore calls; values in units of 1/10000.
RECURSIVE RelatedAdds(_, _)
RelatedAdds(rels, normalized) ==
  IF rels = <<>> THEN <<>>
  ELSE <<[axis |-> rels[1].axis, category |-> rels[1].category,
          value |-> Num(normalized * rels[1].weight * 100)]>>
       \o RelatedAdds(Tail(rels), normalized)

\* main.tsx 270-278 (and 320-333)
LikertAdds(bank, answer) ==
  LET Match(q) == q.id = answer.id
      question == FindFirst(bank.likert, Match)
  IN IF question = <<>> THEN <<>>
     ELSE LET normalized == Normalized(answer.value, question[1].polarity)
          IN <<[axis |-> question[1].axis,
                category |-> question[1].primaryCategory,
                value |-> Num(normalized * 10000)]>>
             \o RelatedAdds(question[1].relatedCategories, normalized)

RECURSIVE SecondaryAdds(_, _, _)
SecondaryAdds(secs, factor, index) ==
  IF secs = <<>> THEN <<>>
  ELSE <<[axis |-> secs[1].axis, category |-> secs[1].category,
          value |-> IF index < 0
                    THEN Num(secs[1].score * secs[1].weight * factor)
                    ELSE RankProduct(secs[1].score * secs[1].weight, index)]>>
       \o SecondaryAdds(Tail(secs), factor, index)

\* the option an answer names: question by id, option by key
FindOption(questions, questionId, optionKey) ==
  LET MatchQ(q) == q.id = questionId
      question == FindFirst(questions, MatchQ)
      MatchO(o) == o.key = optionKey
  IN IF question = <<>> THEN <<>> ELSE FindFirst(question[1].options, MatchO)

\* mutant: the confidence factor is left out
ForcedAdds_NoConfidence(bank, answer) ==
  IF answer.optionKey = "SKIP" THEN <<>>
  ELSE LET option == FindOption(bank.forcedChoice, answer.key[1], answer.optionKey)
       IN IF option = <<>> THEN <<>>
          ELSE <<[axis |-> option[1].primary.axis,
                  category |-> option[1].primary.category,
                  value |-> Num(option[1].primary.score * option[1].primary.weight * 100)]>>
               \o SecondaryAdds(option[1].secondary, 100, -1)

\* main.tsx 280-291 (and 335-350); confidence in tenths
ForcedAdds(bank, answer) ==
  IF answer.optionKey = "SKIP" THEN <<>>
  ELSE LET option == FindOption(bank.forcedChoice, answer.key[1], answer.optionKey)
       IN IF option = <<>> THEN <<>>
          ELSE <<[axis |-> option[1].primary.axis,
                  category |-> option[1].primary.category,
                  value |-> Num(option[1].primary.score * option[1].primary.weight
                                  * answer.confidence * 10)]>>
               \o SecondaryAdds(option[1].secondary, answer.confidence * 10, -1)

\* main.tsx 293-306 (and 352-369): rankedOptions.forEach((optionKey, index) ...)
RECURSIVE RankedAdds(_, _, _)
RankedAdds(question, ranked, index) ==
  IF ranked = <<>> THEN <<>>
  ELSE LET MatchO(o) == o.key = ranked[1]
           option == FindFirst(question.options, MatchO)
       IN (IF option = <<>> THEN <<>>
           ELSE <<[axis |-> option[1].primary.axis,
                   category |-> option[1].primary.category,
                   value |-> RankProduct(option[1].primary.score
                                           * option[1].primary.weight, index)]>>
                \o SecondaryAdds(option[1].secondary, 0, index))
          \o RankedAdds(question, Tail(ranked), index + 1)

ScenarioAdds(bank, answer) ==
  LET Match(q) == q.id = answer.id
      question == FindFirst(bank.scenario, Match)
  IN IF question = <<>> THEN <<>> ELSE RankedAdds(question[1], answer.rankedOptions, 0)

RECURSIVE AllAdds(_, _, _)
AllAdds(bank, answers, kind) ==
  IF answers = <<>> THEN <<>>
  ELSE (IF kind = "likert" THEN LikertAdds(bank, answers[1])
        ELSE IF kind = "forced" THEN ForcedAdds(bank, answers[1])
        ELSE ScenarioAdds(bank, answers[1]))
       \o AllAdds(bank, Tail(answers), kind)

RECURSIVE FoldScores(_, _)
FoldScores(scores, adds) ==
  IF adds = <<>> THEN scores
  ELSE FoldScores(addScore(scores, adds[1].category, adds[1].value), Tail(adds))

\* categoryScore before its final sort (main.tsx 262-307): the scores Map
categoryScoreMap(bank, likert, forced, scenario) ==
  FoldScores(<<>>, AllAdds(bank, likert, "likert") \o AllAdds(bank, forced, "forced")
                     \o AllAdds(bank, scenario, "scenario"))

\* aptitudeScores before its final sort (main.tsx 313-370): the same
\* addScore calls, each guarded by the axis test
aptitudeScoreMap(bank, likert, forced, scenario) ==
  LET OnAxis(add) == add.axis \in AptitudeAxes
  IN FoldScores(<<>>, SelectSeq(AllAdds(bank, likert, "likert")
                                  \o AllAdds(bank, forced, "forced")
                                  \o AllAdds(bank, scenario, "scenario"), OnAxis))

\* What one answer adds to the tags: [name, value, questionId] in the order
\* of the addScore calls; values in units of 1/1000000.
RECURSIVE TagAdds(_, _, _, _)
TagAdds(tags, amount, index, questionId) ==
  IF tags = <<>> THEN <<>>
  ELSE <<[name |-> tags[1].name,
          value |-> IF index < 0 THEN Num(amount * tags[1].weight)
                    ELSE RankProduct(amount * tags[1].weight, index),
          questionId |-> questionId]>>
       \o TagAdds(Tail(tags), amount, index, questionId)

\* main.tsx 436-441
LikertTagAdds(bank, answer) ==
  LET Match(q) == q.id = answer.id
      question == FindFirst(bank.likert, Match)
  IN IF question = <<>> THEN <<>>
     ELSE TagAdds(question[1].tags,
                  Normalized(answer.value, question[1].polarity) * 10000,
                  -1, answer.id)

\* main.tsx 443-451
ForcedTagAdds(bank, answer) ==
  IF answer.optionKey = "SKIP" THEN <<>>
  ELSE LET option == FindOption(bank.forcedChoice, answer.key[1], answer.optionKey)
       IN IF option = <<>> THEN <<>>
          ELSE TagAdds(option[1].tags,
                       option[1].primary.score * option[1].primary.weight
                         * answer.confidence * 10,
                       -1, answer.key[1])

\* main.tsx 453-463
RECURSIVE RankedTagAdds(_, _, _)
RankedTagAdds(question, ranked, index) ==
  IF ranked = <<>> THEN <<>>
  ELSE LET MatchO(o) == o.key = ranked[1]
           option == FindFirst(question.options, MatchO)
       IN (IF option = <<>> THEN <<>>
           ELSE TagAdds(option[1].tags,
                        option[1].primary.score * option[1].primary.weight,
                        index, question.id))
          \o RankedTagAdds(question, Tail(ranked), index + 1)

ScenarioTagAdds(bank, answer) ==
  LET Match(q) == q.id = answer.id
      question == FindFirst(bank.scenario, Match)
  IN IF question = <<>> THEN <<>>
     ELSE RankedTagAdds(question[1], answer.rankedOptions, 0)

RECURSIVE AllTagAdds(_, _, _)
AllTagAdds(bank, answers, kind) ==
  IF answers = <<>> THEN <<>>
  ELSE (IF kind = "likert" THEN LikertTagAdds(bank, answers[1])
        ELSE IF kind = "forced" THEN ForcedTagAdds(bank, answers[1])
        ELSE ScenarioTagAdds(bank, answers[1]))
       \o AllTagAdds(bank, Tail(answers), kind)

RECURSIVE FoldTagScores(_, _)
FoldTagScores(scores, adds) ==
  IF adds = <<>> THEN scores
  ELSE FoldTagScores(addTagScore(scores, adds[1].name, adds[1].value,
                                 adds[1].questionId), Tail(adds))

\* tagScores before its final sort and slice (main.tsx 421-464)
tagScoreMap(bank, likert, forced, scenario) ==
  FoldTagScores(<<>>, AllTagAdds(bank, likert, "likert")
                        \o AllTagAdds(bank, forced, "forced")
                        \o AllTagAdds(bank, scenario, "scenario"))

\* Array.prototype.sort with (a, b) => b.score - a.score.  A difference
\* with a NaN operand is NaN, the comparison is then not consistent and the
\* order of the result is implementation-defined: any permutation.
RECURSIVE InsertByScore(_, _)
InsertByScore(sorted, x) ==
  IF sorted = <<>> THEN <<x>>
  ELSE IF sorted[1].value.v - x.value.v < 0
       THEN <<x>> \o sorted
       ELSE <<sorted[1]>> \o InsertByScore(Tail(sorted), x)

RECURSIVE SortByScore(_, _)
SortByScore(done, todo) ==
  IF todo = <<>> THEN done
  ELSE SortByScore(InsertByScore(done, todo[1]), Tail(todo))

Orderings(s) ==
  {[i \in 1..Len(s) |-> s[p[i]]] :
     p \in {f \in [1..Len(s) -> 1..Len(s)] :
              \A i, j \in 1..Len(s) : i # j => f[i] # f[j]}}

SortOutcomes(scores) ==
  IF \E i \in 1..Len(scores) : scores[i].value.nan
  THEN Orderings(scores)
  ELSE {SortByScore(<<>>, scores)}

\* the values of the categoryScore, aptitudeScores and tagScores memos
categoryScore(bank, likert, forced, scenario) ==
  SortOutcomes(categoryScoreMap(bank, likert, forced, scenario))
aptitudeScores(bank, likert, forced, scenario) ==
  SortOutcomes(aptitudeScoreMap(bank, likert, forced, scenario))
tagScores(bank, likert, forced, scenario) ==
  {Prefix(sorted, 10) : sorted \in SortOutcomes(tagScoreMap(bank, likert, forced, scenario))}

\* ------------------------------------------------- cooccurrenceData memo
\* JavaScript's < on strings, for the category names of the pools
Lexicographic == <<"art", "biz", "eng", "med">>
StrLess(a, b) == IndexOf(Lexicographic, a) < IndexOf(Lexicographic, b)

\* matrix[key1][key2]++ on an object of objects; for-in visits the keys in
\* insertion order
BumpRow(row, key2) ==
  IF \E i \in 1..Len(row) : row[i].key = key2
  THEN [i \in 1..Len(row) |->
          IF row[i].key = key2 THEN [row[i] EXCEPT !.count = @ + 1] ELSE row[i]]
  ELSE Append(row, [key |-> key2, count |-> 1])

BumpMatrix(matrix, key1, key2) ==
  IF \E i \in 1..Len(matrix) : matrix[i].key = key1
  THEN [i \in 1..Len(matrix) |->
          IF matrix[i].key = key1
          THEN [matrix[i] EXCEPT !.row = BumpRow(@, key2)]
          ELSE matrix[i]]
  ELSE Append(matrix, [key |-> key1, row |-> BumpRow(<<>>, key2)])

\* mutant: the pair is keyed as given
increment_AsGiven(matrix, topCategories, cat1, cat2) ==
  IF cat1 \in topCategories /\ cat2 \in topCategories /\ cat1 # cat2
  THEN BumpMatrix(matrix, cat1, cat2)
  ELSE matrix

\* main.tsx 479-491
increment(matrix, topCategories, cat1, cat2) ==
  IF cat1 \in topCategories /\ cat2 \in topCategories /\ cat1 # cat2
  THEN BumpMatrix(matrix,
                  IF StrLess(cat1, cat2) THEN cat1 ELSE cat2,
                  IF StrLess(cat1, cat2) THEN cat2 ELSE cat1)
  ELSE matrix

\* for (i ...) for (j = i + 1 ...) increment(categories[i], categories[j])
RECURSIVE PairLoop(_, _, _, _, _)
PairLoop(matrix, topCategories, categories, i, j) ==
  IF i > Len(categories) THEN matrix
  ELSE IF j > Len(categories)
       THEN PairLoop(matrix, topCategories, categories, i + 1, i + 2)
       ELSE PairLoop(increment(matrix, topCategories, categories[i], categories[j]),
                     topCategories, categories, i, j + 1)

\* [primary, ...others.map(o => o.category)]
CategoriesOf(primary, others) ==
  <<primary>> \o [i \in 1..Len(others) |-> others[i].category]

\* the lists the loops run over: one per Likert question (main.tsx 493-500)
LikertCategoryLists(questions) ==
  [i \in 1..Len(questions) |->
     CategoriesOf(questions[i].primaryCategory, questions[i].relatedCategories)]

\* and one per option of each forced-choice or scenario question (502-522)
RECURSIVE OptionCategoryLists(_)
OptionCategoryLists(questions) ==
  IF questions = <<>> THEN <<>>
  ELSE [i \in 1..Len(questions[1].options) |->
          CategoriesOf(questions[1].options[i].primary.category,
                       questions[1].options[i].secondary)]
       \o OptionCategoryLists(Tail(questions))

RECURSIVE CountLists(_, _, _)
CountLists(matrix, topCategories, lists) ==
  IF lists = <<>> THEN matrix
  ELSE CountLists(PairLoop(matrix, topCategories, lists[1], 1, 2),
                  topCategories, Tail(lists))

\* main.tsx 524-529
RECURSIVE FlattenMatrix(_)
FlattenMatrix(matrix) ==
  IF matrix = <<>> THEN <<>>
  ELSE [i \in 1..Len(matrix[1].row) |->
          [x |-> matrix[1].key, y |-> matrix[1].row[i].key,
           z |-> matrix[1].row[i].count]]
       \o FlattenMatrix(Tail(matrix))

\* main.tsx 471-532; `scores` is the categoryScore memo's value
cooccurrenceData(bank, scores) ==
  IF scores = <<>> THEN <<>>
  ELSE FlattenMatrix(
         CountLists(<<>>, {scores[i].key : i \in 1..Len(scores)},
                    LikertCategoryLists(bank.likert)
                      \o OptionCategoryLists(bank.forcedChoice)
                      \o OptionCategoryLists(bank.scenario)))

\* ------------------------------------------------ aggregator call inputs
\* up to MaxAggAnswers answers of one kind
MaxAggAnswers == 2

AggBank == Bank(LikertPool, ForcedPool, ScenarioPool)

\* a bank whose forced-choice question names one pair of categories in
\* both of its options
PairedBank ==
  Bank(Prefix(LikertPool, 1),
       <<[id |-> "F3", options |-> <<
            [key |-> "A", primary |-> WCat("activity", "eng", 3, 100),
             secondary |-> <<WCat("interest", "art", 2, 50)>>,
             tags |-> <<Tag("t1", 100)>>],
            [key |-> "B", primary |-> WCat("interest", "art", 4, 100),
             secondary |-> <<WCat("activity", "eng", 1, 50)>>,
             tags |-> <<Tag("t1", 100)>>] >>]>>,
       <<>>)

LikertEntries == {[id |-> q.id, value |-> v] : q \in Range(LikertPool), v \in LikertScale}
ConfidenceValues == {5, 8, 10}
ForcedEntries ==
  UNION {{[key |-> <<q.id, o.key>>, optionKey |-> o.key, confidence |-> c] :
            o \in Range(q.options), c \in ConfidenceValues} : q \in Range(ForcedPool)}
    \cup {[key |-> <<q.id, "SKIP">>, optionKey |-> "SKIP", confidence |-> 0] :
            q \in Range(ForcedPool)}
ScenarioEntries(questions) ==
  UNION {{[id |-> q.id, rankedOptions |-> r] : r \in Orderings(OptionKeys(q))} :
           q \in Range(questions)}

\* answer objects: entries with pairwise distinct keys
KeyedSeqs(entries, Key(_), n) ==
  {s \in SeqsUpTo(entries, n) :
     \A i, j \in 1..Len(s) : i # j => Key(s[i]) # Key(s[j])}

LikertSample == {<<>>, <<[id |-> "L2", value |-> 2]>>}
ForcedSample ==
  {<<>>, <<[key |-> <<"F1", "A">>, optionKey |-> "A", confidence |-> 8]>>}
ScenarioSample ==
  {<<>>, <<[id |-> "SC-1", rankedOptions |-> <<"A", "B", "C">>]>>}

AggInputs ==
  LET IdOf(e) == e.id
      KeyOf(e) == e.key
  IN [bank : {AggBank},
      likert : KeyedSeqs(LikertEntries, IdOf, MaxAggAnswers),
      forced : ForcedSample, scenario : ScenarioSample]
     \cup [bank : {AggBank}, likert : LikertSample,
           forced : KeyedSeqs(ForcedEntries, KeyOf, MaxAggAnswers),
           scenario : ScenarioSample]
     \cup [bank : {AggBank}, likert : LikertSample, forced : ForcedSample,
           scenario : KeyedSeqs(ScenarioEntries(Prefix(ScenarioPool, 2)), IdOf, 2)
                        \cup {<<e>> : e \in ScenarioEntries(<<ScenarioPool[3]>>)}]
     \cup [bank : {PairedBank},
           likert : {<<>>, <<[id |-> "L1", value |-> 5]>>},
           forced : {SelectSeq(<<[key |-> <<"F3", "A">>, optionKey |-> "A",
                                   confidence |-> 8],
                                  [key |-> <<"F3", "B">>, optionKey |-> "B",
                                   confidence |-> 8]>>,
                                LAMBDA e : e.optionKey \in keep) :
                       keep \in SUBSET {"A", "B"}},
           scenario : {<<>>}]

AggInit ==
  /\ aggIn \in AggInputs
  /\ aggOut = <<>>

\* one evaluation of the memos over the answers held
AggCall ==
  /\ aggOut = <<>>
  /\ \E c \in categoryScore(aggIn.bank, aggIn.likert, aggIn.forced, aggIn.scenario),
        a \in aptitudeScores(aggIn.bank, aggIn.likert, aggIn.forced, aggIn.scenario),
        t \in tagScores(aggIn.bank, aggIn.likert, aggIn.forced, aggIn.scenario) :
       aggOut' = <<[categoryScore |-> c, aptitudeScores |-> a, tagScores |-> t,
                    cooccurrenceData |-> cooccurrenceData(aggIn.bank, c),
                    likertStats |-> recomputeAxisStats(aggIn.bank.likert, aggIn.likert)]>>
  /\ UNCHANGED aggIn

InitAgg == AggInit /\ SessionIdle /\ PickIdle /\ ApplyIdle /\ AnalyzeIdle
NextAgg == AggCall /\ UNCHANGED <<sessionVars, pickVars, applyVars, analyzeVars>>
SpecAgg == InitAgg /\ [][NextAgg]_vars

\* ------------------------------------------------------- JSON documents
\* System.Text.Json.Nodes trees.  A JSON null is the C# null reference.
JNull == [t |-> "null"]
JNum(v) == [t |-> "number", v |-> v]
JStr(str) == [t |-> "string", s |-> str]
JArr(elems) == [t |-> "array", elems |-> elems]
JObj(fields) == [t |-> "object", fields |-> fields]
Prop(name, value) == [name |-> name, value |-> value]

\* a reference that may be null: JSON null reads as no node
NonNull(hit) ==
  IF hit = <<>> \/ hit[1].value.t = "null" THEN <<>> ELSE <<hit[1].value>>

\* node[name] of a JsonObject: the property's value or null
GetProp(node, name) ==
  LET Match(f) == f.name = name
  IN NonNull(FindFirst(node.fields, Match))

\* node[name] = value: an existing property keeps its place
SetProp(node, name, value) ==
  IF \E k \in 1..Len(node.fields) : node.fields[k].name = name
  THEN JObj([k \in 1..Len(node.fields) |->
               IF node.fields[k].name = name THEN Prop(name, value)
               ELSE node.fields[k]])
  ELSE JObj(Append(node.fields, Prop(name, value)))

ReplaceAt(seq, i, x) == [k \in 1..Len(seq) |-> IF k = i THEN x ELSE seq[k]]

\* array.FirstOrDefault(node => node?[name]?.GetValue<string>() == wanted):
\* the index of the first match, 0 when there is none (null), -1 when the
\* test throws (string indexer on a non-object, GetValue<string> on a
\* value that is not a string) before a match is found.
RECURSIVE FirstOrDefault(_, _, _, _)
TestNode(value, elems, name, wanted, k) ==
  IF value = <<>> THEN FirstOrDefault(elems, name, wanted, k + 1)
  ELSE IF value[1].t # "string" THEN -1
  ELSE IF value[1].s = wanted THEN k
  ELSE FirstOrDefault(elems, name, wanted, k + 1)
FirstOrDefault(elems, name, wanted, k) ==
  IF k > Len(elems) THEN 0
  ELSE IF elems[k].t = "null" THEN FirstOrDefault(elems, name, wanted, k + 1)
  ELSE IF elems[k].t # "object" THEN -1
  ELSE TestNode(GetProp(elems[k], name), elems, name, wanted, k)

\* --------------------------------------------------------- WeightApplier
\* Weights and tolerance in hundredths.
Continue(root) == [threw |-> FALSE, root |-> root, updated |-> 0]
Threw(root) == [threw |-> TRUE, root |-> root, updated |-> 0]

\* mutant: a delta equal to the tolerance is not applied either
WithinTolerance_Inclusive(currentWeight, recommendedWeight, tolerance) ==
  Abs(currentWeight - recommendedWeight) <= tolerance

\* Math.Abs(currentWeight - summary.RecommendedWeight) < tolerance
WithinTolerance(currentWeight, recommendedWeight, tolerance) ==
  Abs(currentWeight - recommendedWeight) < tolerance

\* mutant: the primary object is rebuilt from the typed fields
AssignWeight_Rebuild(primary, recommendedWeight) ==
  LET Known(f) == f.name \in {"axis", "category", "score"}
  IN JObj(Append(SelectSeq(primary.fields, Known),
                 Prop("weight", JNum(recommendedWeight))))

\* mutant: the weight moves half of the way to the recommended weight
AssignWeight_Halfway(primary, recommendedWeight) ==
  SetProp(primary, "weight",
          JNum(((IF GetProp(primary, "weight") = <<>> THEN 100
                 ELSE GetProp(primary, "weight")[1].v) + recommendedWeight) \div 2))

\* primary["weight"] = summary.RecommendedWeight
AssignWeight(primary, recommendedWeight) ==
  SetProp(primary, "weight", JNum(recommendedWeight))

\* 1047-1054: the tolerance test and the assignment, `weight` being
\* primary["weight"]
UpdateWeight(primary, weight, summary, tolerance) ==
  IF weight # <<>> /\ weight[1].t # "number" THEN Threw(primary)
  ELSE IF WithinTolerance(IF weight = <<>> THEN 100 ELSE weight[1].v,
                          summary.recommendedWeight, tolerance)
  THEN Continue(primary)
  ELSE [threw |-> FALSE,
        root |-> AssignWeight(primary, summary.recommendedWeight),
        updated |-> 1]

\* the nodes are mutated in place: the tree around the changed leaf
InOption(optionsArray, j, done) ==
  [threw |-> done.threw,
   root |-> ReplaceAt(optionsArray, j, SetProp(optionsArray[j], "primary", done.root)),
   updated |-> done.updated]
InItem(itemsArray, i, done) ==
  [threw |-> done.threw,
   root |-> ReplaceAt(itemsArray, i, SetProp(itemsArray[i], "options", JArr(done.root))),
   updated |-> done.updated]
InRoot(root, done) ==
  [threw |-> done.threw,
   root |-> IF done.updated = 0 THEN root ELSE SetProp(root, "items", JArr(done.root)),
   updated |-> done.updated]

\* 1042-1045: `primary` being optionNode["primary"]
UpdatePrimary(optionsArray, j, primary, summary, tolerance) ==
  IF primary = <<>> \/ primary[1].t # "object" THEN Continue(optionsArray)
  ELSE InOption(optionsArray, j,
                UpdateWeight(primary[1], GetProp(primary[1], "weight"),
                             summary, tolerance))

\* 1036-1040: j being the place of optionNode in optionsArray
UpdateOption(optionsArray, j, summary, tolerance) ==
  IF j < 0 THEN Threw(optionsArray)
  ELSE IF j = 0 THEN Continue(optionsArray)
  ELSE UpdatePrimary(optionsArray, j, GetProp(optionsArray[j], "primary"),
                     summary, tolerance)

\* 1030-1034: `optionsNode` being itemNode["options"]
UpdateOptions(itemsArray, i, optionsNode, summary, tolerance) ==
  IF optionsNode = <<>> \/ optionsNode[1].t # "array" THEN Continue(itemsArray)
  ELSE InItem(itemsArray, i,
              UpdateOption(optionsNode[1].elems,
                           FirstOrDefault(optionsNode[1].elems, "key",
                                          summary.itemId[2], 1),
                           summary, tolerance))

\* 1029: i being the place of itemNode in itemsArray
UpdateItem(itemsArray, i, summary, tolerance) ==
  IF i < 0 THEN Threw(itemsArray)
  ELSE IF i = 0 THEN Continue(itemsArray)
  ELSE UpdateOptions(itemsArray, i, GetProp(itemsArray[i], "options"),
                     summary, tolerance)

UpdateItems(itemsArray, summary, tolerance) ==
  UpdateItem(itemsArray, FirstOrDefault(itemsArray, "id", summary.itemId[1], 1),
             summary, tolerance)

\* the body of the foreach of ApplyToFile for one summary (1021-1054)
ApplySummary(root, summary, tolerance) ==
  IF Len(summary.itemId) # 2 THEN Continue(root)
  ELSE InRoot(root, UpdateItems(GetProp(root, "items")[1].elems, summary, tolerance))

RECURSIVE ApplySummaries(_, _, _, _)
AfterSummary(one, rest, tolerance, updated) ==
  IF one.threw THEN Threw(one.root)
  ELSE ApplySummaries(one.root, rest, tolerance, updated + one.updated)
ApplySummaries(root, summaries, tolerance, updated) ==
  IF summaries = <<>> THEN [threw |-> FALSE, root |-> root, updated |-> updated]
  ELSE AfterSummary(ApplySummary(root, summaries[1], tolerance),
                    Tail(summaries), tolerance, updated)

\* A file is absent, or holds text: text JsonNode.Parse rejects, or the
\* text of a tree (layout is not modelled: ToJsonString followed by Parse
\* gives the tree back).
Missing == [kind |-> "missing"]
Unparseable == [kind |-> "unparseable"]
Document(root) == [kind |-> "document", root |-> root]

Outcome(done) ==
  [outcome |-> IF done.threw THEN "threw" ELSE "ok",
   root |-> done.root, updated |-> done.updated]

\* ApplyToFile up to the write (1004-1055): what it decides and holds in
\* memory.  outcome: "missing" and "skipped" return 0 after a warning,
\* "threw" leaves by an exception, "ok" goes on to File.WriteAllText.
ApplyToFile(content, summaries, tolerance) ==
  IF content.kind = "missing"
  THEN [outcome |-> "missing", root |-> JNull, updated |-> 0]
  ELSE IF content.kind = "unparseable"
  THEN [outcome |-> "threw", root |-> JNull, updated |-> 0]
  ELSE IF content.root.t = "null"
  THEN [outcome |-> "skipped", root |-> JNull, updated |-> 0]
  ELSE IF content.root.t # "object"
  THEN [outcome |-> "threw", root |-> content.root, updated |-> 0]
  ELSE IF GetProp(content.root, "items") = <<>>
            \/ GetProp(content.root, "items")[1].t # "array"
  THEN [outcome |-> "skipped", root |-> content.root, updated |-> 0]
  ELSE Outcome(ApplySummaries(content.root, summaries, tolerance, 0))

\* ------------------------------------------------- catalogs and reports
WeightedNode(axis, category, score, weight) ==
  JObj(<<Prop("axis", JStr(axis)), Prop("category", JStr(category)),
         Prop("score", JNum(score)), Prop("weight", weight),
         Prop("memo", JStr("m"))>>)

\* questions_forced_choice.json: F1 with options A (primary.weight given by
\* `weight`, a secondary with its own weight) and B (no primary.weight),
\* F2 whose options is not an array, F3 whose option has no primary
\* object; a null element and fields the tool does not know.
ForcedTree(weight) ==
  JObj(<<Prop("version", JNum(2)),
         Prop("items", JArr(<<
           JNull,
           JObj(<<Prop("id", JStr("F1")), Prop("prompt", JStr("p1")),
                  Prop("options", JArr(<<
                    JObj(<<Prop("key", JStr("A")), Prop("label", JStr("a")),
                           Prop("primary", WeightedNode("activity", "eng", 5, weight)),
                           Prop("secondary", JArr(<<
                             WeightedNode("interest", "art", 2, JNum(50))>>))>>),
                    JObj(<<Prop("key", JStr("B")),
                           Prop("primary", JObj(<<Prop("category", JStr("biz")),
                                                  Prop("score", JNum(3))>>))>>)>>))>>),
           JObj(<<Prop("id", JStr("F2")), Prop("options", JStr("none"))>>),
           JObj(<<Prop("id", JStr("F3")),
                  Prop("options", JArr(<<
                    JObj(<<Prop("key", JStr("A")),
                           Prop("primary", JStr("eng"))>>)>>))>>)>>))>>)

\* questions_scenario.json
ScenarioTree ==
  JObj(<<Prop("items", JArr(<<
           JObj(<<Prop("id", JStr("SC-1")), Prop("title", JStr("s1")),
                  Prop("options", JArr(<<
                    JObj(<<Prop("key", JStr("A")),
                           Prop("primary", WeightedNode("activity", "eng", 4, JNum(100)))>>),
                    JObj(<<Prop("key", JStr("B")),
                           Prop("primary", WeightedNode("interest", "art", 3, JNum(90)))>>)
                  >>))>>)>>))>>)

\* questions_likert.json
LikertTree ==
  JObj(<<Prop("items", JArr(<<
           JObj(<<Prop("id", JStr("L1")), Prop("axis", JStr("activity")),
                  Prop("weight", JNum(100))>>)>>))>>)

ForcedContents ==
  {Missing, Unparseable, Document(JNull), Document(JArr(<<>>)),
   Document(JObj(<<Prop("version", JNum(2))>>)),
   Document(JObj(<<Prop("items", JObj(<<>>))>>)),
   Document(ForcedTree(JNum(100))), Document(ForcedTree(JNum(108))),
   Document(ForcedTree(JStr("1.0")))}
ScenarioContents ==
  {Missing, Unparseable, Document(JObj(<<>>)), Document(ScenarioTree)}

\* ItemSummary: the id split at '|', the recommended weight in hundredths
Summary(parts, recommendedWeight) ==
  [itemId |-> parts, recommendedWeight |-> recommendedWeight]

\* summaries in a list of report.ForcedChoice.Items: at most MaxSummaries
MaxSummaries == 2

RecommendedWeights == {103, 105, 110}
ForcedSummaries ==
  {Summary(parts, w) : parts \in {<<"F1", "A">>, <<"F1", "B">>},
                       w \in RecommendedWeights}
    \cup {Summary(parts, 110) :
            parts \in {<<"F2", "A">>, <<"F3", "A">>, <<"F9", "A">>, <<"F1">>}}
ScenarioSummaryLists ==
  {<<>>, <<Summary(<<"SC-1", "A">>, 110), Summary(<<"SC-1", "B">>, 93)>>}
Tolerances == {5, 10}

Reports ==
  LET IdOf(e) == e.itemId
  IN [likert : {<<Summary(<<"L1">>, 120)>>},
      forced : KeyedSeqs(ForcedSummaries, IdOf, MaxSummaries),
      scenario : ScenarioSummaryLists]

\* ------------------------------------------------- WeightApplier.Apply
ApplyInit ==
  /\ files \in [likert : {Document(LikertTree)},
                forced : ForcedContents, scenario : ScenarioContents]
  /\ \E tolerance \in Tolerances, report \in Reports :
       applyRun = [pc |-> "read", at |-> "forced",
                   tolerance |-> tolerance, report |-> report,
                   before |-> files,
                   root |-> JNull, updated |-> 0,
                   counts |-> [forced |-> 0, scenario |-> 0],
                   warnings |-> <<>>, written |-> <<>>, printed |-> <<>>]
  /\ writers = <<>>

\* what follows ApplyToFile(path) in Apply
AfterFile(run, count) ==
  [run EXCEPT !.counts[run.at] = count,
              !.root = JNull, !.updated = 0,
              !.at = IF run.at = "forced" THEN "scenario" ELSE run.at,
              !.pc = IF run.at = "forced" THEN "read" ELSE "report"]

\* the run after ApplyToFile has decided `result`
AfterRead(run, result) ==
  IF result.outcome \in {"missing", "skipped"}
  THEN AfterFile([run EXCEPT !.warnings = Append(@, [path |-> run.at,
                                                     kind |-> result.outcome])], 0)
  ELSE IF result.outcome = "threw"
  THEN [run EXCEPT !.pc = "aborted"]
  ELSE [run EXCEPT !.pc = "write", !.root = result.root,
                   !.updated = result.updated]

\* ApplyToFile from File.Exists to the end of the foreach
ApplyToFileRead ==
  /\ applyRun.pc = "read"
  /\ applyRun' = AfterRead(applyRun,
                           ApplyToFile(files[applyRun.at],
                                       applyRun.report[applyRun.at],
                                       applyRun.tolerance))
  /\ UNCHANGED <<files, writers>>

\* File.WriteAllText(path, root.ToJsonString(...)); return updated
ApplyToFileWrite ==
  /\ applyRun.pc = "write"
  /\ files' = [files EXCEPT ![applyRun.at] = Document(applyRun.root)]
  /\ applyRun' = AfterFile([applyRun EXCEPT !.written = Append(@, applyRun.at)],
                           applyRun.updated)
  /\ UNCHANGED writers

\* the closing Console.WriteLine of Apply
ApplyReport ==
  /\ applyRun.pc = "report"
  /\ applyRun' = [applyRun EXCEPT !.pc = "done", !.printed = <<applyRun.counts>>]
  /\ UNCHANGED <<files, writers>>

ApplyOnly == UNCHANGED <<sessionVars, pickVars, aggVars, analyzeVars>>

InitApply == ApplyInit /\ SessionIdle /\ PickIdle /\ AggIdle /\ AnalyzeIdle
NextApply ==
  \/ ApplyToFileRead /\ ApplyOnly
  \/ ApplyToFileWrite /\ ApplyOnly
  \/ ApplyReport /\ ApplyOnly
SpecApply == InitApply /\ [][NextApply]_vars

\* ------------------------------------- two Apply calls on the same files
\* Two invocations of the tool (the `apply` command run twice) given the
\* same catalog directory.  Each is the Apply of above; a step is what one
\* invocation does between two accesses of the file system.
Writers == {1, 2}
OtherWriter(i) == 3 - i

WriterForcedLists ==
  {<<>>, <<Summary(<<"F1", "A">>, 110)>>, <<Summary(<<"F1", "B">>, 110)>>,
   <<Summary(<<"F1", "A">>, 103), Summary(<<"F1", "B">>, 105)>>}
WriterReports ==
  [likert : {<<>>}, forced : WriterForcedLists, scenario : ScenarioSummaryLists]
WriterFiles ==
  [likert : {Document(LikertTree)},
   forced : {Document(ForcedTree(JNum(100))), Document(ForcedTree(JNum(108)))},
   scenario : {Missing, Document(ScenarioTree)}]

\* an invocation that has not yet touched a file.  History: `seen` is what
\* ApplyToFile read from each path, `started` whether the invocation has
\* taken a step, `overlapped` whether it took one while the other
\* invocation was at work.
NewRun(tolerance, report, before) ==
  [pc |-> "read", at |-> "forced", tolerance |-> tolerance, report |-> report,
   before |-> before, root |-> JNull, updated |-> 0,
   counts |-> [forced |-> 0, scenario |-> 0],
   warnings |-> <<>>, written |-> <<>>, printed |-> <<>>,
   seen |-> [forced |-> <<>>, scenario |-> <<>>],
   started |-> FALSE, overlapped |-> FALSE]

WriterInit ==
  /\ files \in WriterFiles
  /\ writers \in [Writers -> {NewRun(tolerance, report, files) :
                               tolerance \in Tolerances, report \in WriterReports}]
  /\ applyRun = <<>>

AtWork(run) == run.started /\ run.pc \notin {"done", "aborted"}
Stepped(i, run) ==
  [run EXCEPT !.started = TRUE, !.overlapped = @ \/ AtWork(writers[OtherWriter(i)])]

\* mutant: the text is the one the file held when the invocation began
ReadAllText_AtStart(run, path) == run.before[path]

\* File.Exists(path) and File.ReadAllText(path): the file as it is now
ReadAllText(run, path) == files[path]

\* ApplyToFile of invocation i from File.Exists to the end of the foreach
WriterRead(i) ==
  /\ writers[i].pc = "read"
  /\ writers' =
       [writers EXCEPT ![i] =
          Stepped(i, AfterRead(
            [writers[i] EXCEPT
               !.seen[writers[i].at] = <<ReadAllText(writers[i], writers[i].at)>>],
            ApplyToFile(ReadAllText(writers[i], writers[i].at),
                        writers[i].report[writers[i].at],
                        writers[i].tolerance)))]
  /\ UNCHANGED <<files, applyRun>>

\* File.WriteAllText(path, root.ToJsonString(...)) of invocation i: the
\* tree it holds replaces whatever the file holds by now
WriterWrite(i) ==
  /\ writers[i].pc = "write"
  /\ files' = [files EXCEPT ![writers[i].at] = Document(writers[i].root)]
  /\ writers' =
       [writers EXCEPT ![i] =
          Stepped(i, AfterFile([writers[i] EXCEPT
                                  !.written = Append(@, writers[i].at)],
                               writers[i].updated))]
  /\ UNCHANGED applyRun

\* the closing Console.WriteLine of invocation i
WriterReport(i) ==
  /\ writers[i].pc = "report"
  /\ writers' =
       [writers EXCEPT ![i] =
          Stepped(i, [writers[i] EXCEPT !.pc = "done",
                                        !.printed = <<writers[i].counts>>])]
  /\ UNCHANGED <<files, applyRun>>

InitWriters == WriterInit /\ SessionIdle /\ PickIdle /\ AggIdle /\ AnalyzeIdle
NextWriters ==
  \/ \E i \in Writers : WriterRead(i) /\ ApplyOnly
  \/ \E i \in Writers : WriterWrite(i) /\ ApplyOnly
  \/ \E i \in Writers : WriterReport(i) /\ ApplyOnly
SpecWriters == InitWriters /\ [][NextWriters]_vars

\* ---------------------------------------------------------- ScoreAnalyzer
\* ResponseRecord: value an integer, responseTimeMs in milliseconds,
\* confidence in hundredths; a time or confidence the record does not carry
\* (double? without a value) is the empty sequence, a carried one <<v>>.
\* A double computed from them is the exact fraction n / d (d > 0).
Record(respondentId, itemId, value, responseTimeMs, confidence) ==
  [respondentId |-> respondentId, itemId |-> itemId, value |-> value,
   responseTimeMs |-> responseTimeMs, confidence |-> confidence]

Frac(n, d) == [n |-> n, d |-> d]

RECURSIVE SumSeq(_)
SumSeq(s) == IF s = <<>> THEN 0 ELSE s[1] + SumSeq(Tail(s))

Values(records) == [i \in 1..Len(records) |-> records[i].value]

\* Enumerable.Average of a non-empty sequence
Average(values) == Frac(SumSeq(values), Len(values))

\* records.Where(r => r.X.HasValue).Select(r => r.X!.Value)
RECURSIVE Carried(_)
Carried(options) ==
  IF options = <<>> THEN <<>> ELSE options[1] \o Carried(Tail(options))

\* .DefaultIfEmpty().Average(): an empty sequence becomes <<default(double)>>,
\* whose average is 0
AverageOrDefault(values) ==
  IF values = <<>> THEN Average(<<0>>) ELSE Average(values)

averageTime(records) ==
  AverageOrDefault(Carried([i \in 1..Len(records) |-> records[i].responseTimeMs]))
averageConfidence(records) ==
  AverageOrDefault(Carried([i \in 1..Len(records) |-> records[i].confidence]))

\* values.Select(v => Math.Pow(v - mean, 2)).Sum() / (values.Length - 1):
\* v - mean is (n * v - sum) / n
Variance(values) ==
  IF Len(values) > 1
  THEN Frac(SumSeq([i \in 1..Len(values) |->
                      (Len(values) * values[i] - SumSeq(values))
                        * (Len(values) * values[i] - SumSeq(values))]),
            Len(values) * Len(values) * (Len(values) - 1))
  ELSE Frac(0, 1)

\* f > p / q and f < p / q for q > 0
Above(f, p, q) == f.n * q > p * f.d
Below(f, p, q) == f.n * q < p * f.d

\* Math.Clamp on hundredths
Clamp(value, min, max) ==
  IF value < min THEN min ELSE IF value > max THEN max ELSE value

\* mutant: the thresholds are inclusive
VarianceWeight_Inclusive(variance) ==
  IF ~Below(variance, 2, 1) THEN 120
  ELSE IF ~Below(variance, 1, 1) THEN 100
  ELSE IF ~Below(variance, 1, 2) THEN 80
  ELSE 60

\* variance switch { > 2 => 1.2, > 1 => 1.0, > 0.5 => 0.8, _ => 0.6 }
VarianceWeight(variance) ==
  IF Above(variance, 2, 1) THEN 120
  ELSE IF Above(variance, 1, 1) THEN 100
  ELSE IF Above(variance, 1, 2) THEN 80
  ELSE 60

\* mutant: the thresholds are inclusive
CalculateTimeMultiplier_Inclusive(averageTimeMs) ==
  IF averageTimeMs = <<>> THEN 100
  ELSE IF averageTimeMs[1].n <= 0 THEN 100
  ELSE IF ~Above(averageTimeMs[1], 1500, 1) THEN 85
  ELSE IF ~Above(averageTimeMs[1], 2500, 1) THEN 93
  ELSE IF ~Above(averageTimeMs[1], 4500, 1) THEN 100
  ELSE IF ~Above(averageTimeMs[1], 6500, 1) THEN 105
  ELSE 110

\* utils.ts 911-926; the argument is a double?, the result in hundredths
CalculateTimeMultiplier(averageTimeMs) ==
  IF averageTimeMs = <<>> THEN 100
  ELSE IF averageTimeMs[1].n <= 0 THEN 100
  ELSE IF Below(averageTimeMs[1], 1500, 1) THEN 85
  ELSE IF Below(averageTimeMs[1], 2500, 1) THEN 93
  ELSE IF Below(averageTimeMs[1], 4500, 1) THEN 100
  ELSE IF Below(averageTimeMs[1], 6500, 1) THEN 105
  ELSE 110

\* utils.ts 928-943; confidence in hundredths
CalculateConfidenceMultiplier(averageConfidenceArg) ==
  IF averageConfidenceArg = <<>> THEN 100
  ELSE IF Below(averageConfidenceArg[1], 30, 1) THEN 80
  ELSE IF Below(averageConfidenceArg[1], 50, 1) THEN 90
  ELSE IF Below(averageConfidenceArg[1], 70, 1) THEN 100
  ELSE IF Below(averageConfidenceArg[1], 85, 1) THEN 105
  ELSE 110

RECURSIVE Gcd(_, _)
Gcd(a, b) == IF b = 0 THEN a ELSE Gcd(b, a % b)

\* A correlation is num / sqrt(rad) with rad > 0, kept in this form.
\* sign(num) * sqrt(n / d) < p / q for q > 0
SquareBelow(num, n, d, p, q) ==
  IF p >= 0
  THEN num < 0 \/ q * q * n < p * p * d
  ELSE num < 0 /\ q * q * n > p * p * d
\* r < p / q for q > 0, with num * num / rad and p / q in lowest terms
CorrBelow(r, p, q) ==
  SquareBelow(r.num,
              (r.num * r.num) \div Gcd(r.num * r.num, r.rad),
              r.rad \div Gcd(r.num * r.num, r.rad),
              p \div Gcd(Abs(p), q),
              q \div Gcd(Abs(p), q))
CorrNeg(r) == [num |-> 0 - r.num, rad |-> r.rad]

\* A Likert weight is c / 100 + (k / 100) * r
Weight(c, k, r) == [c |-> c, k |-> k, r |-> r]
Constant(c) == Weight(c, 0, [num |-> 0, rad |-> 1])

\* mutant: the whole correlation is added
CorrelationWeight_Whole(correlation) ==
  IF correlation # <<>>
  THEN IF CorrBelow(correlation[1], -3, 5) THEN Constant(40)
       ELSE IF CorrBelow(CorrNeg(correlation[1]), -3, 5) THEN Constant(160)
       ELSE Weight(100, 100, correlation[1])
  ELSE Constant(100)

\* correlation.HasValue ? Clamp(1 + correlation.Value * 0.5, 0.4, 1.6) : 1.0
\* (1 + r / 2 < 0.4 is r < -6/5, 1 + r / 2 > 1.6 is -r < -6/5)
CorrelationWeight(correlation) ==
  IF correlation # <<>>
  THEN IF CorrBelow(correlation[1], -6, 5) THEN Constant(40)
       ELSE IF CorrBelow(CorrNeg(correlation[1]), -6, 5) THEN Constant(160)
       ELSE Weight(100, 50, correlation[1])
  ELSE Constant(100)

\* Fractions brought to one denominator: Pearson's formula is evaluated on
\* the numerators, which scales numerator and denominator alike.
RECURSIVE CommonDenominator(_)
CommonDenominator(fracs) ==
  IF fracs = <<>> THEN 1
  ELSE (fracs[1].d * CommonDenominator(Tail(fracs)))
         \div Gcd(fracs[1].d, CommonDenominator(Tail(fracs)))
Numerators(fracs) ==
  [i \in 1..Len(fracs) |-> fracs[i].n * (CommonDenominator(fracs) \div fracs[i].d)]

\* xs[i] - mx, times the length
Deviations(xs) == [i \in 1..Len(xs) |-> Len(xs) * xs[i] - SumSeq(xs)]
DotProduct(a, b) == SumSeq([i \in 1..Len(a) |-> a[i] * b[i]])

\* utils.ts 864-882: sqrt(sumSqX * sumSqY) is 0 exactly when the product is
PearsonOf(dx, dy) ==
  IF DotProduct(dx, dx) * DotProduct(dy, dy) = 0 THEN <<>>
  ELSE <<[num |-> DotProduct(dx, dy),
          rad |-> DotProduct(dx, dx) * DotProduct(dy, dy)]>>

\* xs.Average() is the sum of the doubles from left to right divided by
\* their count.  Over equal entries it returns the entry again, so that
\* every xs[i] - mx is 0, unless the division rounds away from it; of the
\* vectors of the model that is 7/5 three times:
\* (1.4 + 1.4 + 1.4) / 3 is 1.3999999999999997.
RoundedAway == {[n |-> 7, d |-> 5, count |-> 3]}
AllEqual(fracs) ==
  \A i, j \in 1..Len(fracs) : fracs[i].n * fracs[j].d = fracs[j].n * fracs[i].d
Lowest(frac, count) ==
  [n |-> frac.n \div Gcd(Abs(frac.n), frac.d),
   d |-> frac.d \div Gcd(Abs(frac.n), frac.d), count |-> count]
\* every deviation from the computed mean is one and the same number # 0
Residual(fracs) == AllEqual(fracs) /\ Lowest(fracs[1], Len(fracs)) \in RoundedAway

\* utils.ts 855-883.  With residual deviations e in one vector the sums are
\* numerator = e * (sum of the other deviations) = 0 and sumSq = n * e * e,
\* so that the denominator is not 0; with residuals in both vectors the
\* quotient is n * e * e / sqrt(n * e * e * n * e * e) = 1.
PearsonCorrelation(xs, ys) ==
  IF Len(xs) # Len(ys) \/ Len(xs) < 2 THEN <<>>
  ELSE IF Residual(xs) /\ Residual(ys) THEN <<[num |-> 1, rad |-> 1]>>
  ELSE IF Residual(xs) /\ ~AllEqual(ys) THEN <<[num |-> 0, rad |-> 1]>>
  ELSE IF Residual(ys) /\ ~AllEqual(xs) THEN <<[num |-> 0, rad |-> 1]>>
  ELSE PearsonOf(Deviations(Numerators(xs)), Deviations(Numerators(ys)))

\* GroupBy(r => r.RespondentId): the keys in order of first occurrence
RECURSIVE GroupKeys(_, _)
GroupKeys(records, seen) ==
  IF records = <<>> THEN <<>>
  ELSE IF records[1].respondentId \in seen THEN GroupKeys(Tail(records), seen)
       ELSE <<records[1].respondentId>>
              \o GroupKeys(Tail(records), seen \cup {records[1].respondentId})

OwnValues(allResponses, respondentId, itemId) ==
  Values(SelectSeq(allResponses,
                   LAMBDA r : r.respondentId = respondentId /\ r.itemId = itemId))
\* byRespondent[respondentId]
OtherValues(allResponses, respondentId, itemId) ==
  Values(SelectSeq(allResponses,
                   LAMBDA r : r.respondentId = respondentId /\ r.itemId # itemId))

\* utils.ts 833-843
RECURSIVE Filtered(_, _, _)
Filtered(allResponses, itemId, respondentIds) ==
  IF respondentIds = <<>> THEN <<>>
  ELSE (IF OtherValues(allResponses, respondentIds[1], itemId) = <<>> THEN <<>>
        ELSE <<[item |-> Average(OwnValues(allResponses, respondentIds[1], itemId)),
                total |-> Average(OtherValues(allResponses, respondentIds[1],
                                              itemId))]>>)
       \o Filtered(allResponses, itemId, Tail(respondentIds))

PairedPoints(allResponses, itemId) ==
  Filtered(allResponses, itemId,
           GroupKeys(SelectSeq(allResponses, LAMBDA r : r.itemId = itemId), {}))

CorrelationOfPoints(filtered) ==
  IF Len(filtered) < 3 THEN <<>>
  ELSE PearsonCorrelation([i \in 1..Len(filtered) |-> filtered[i].item],
                          [i \in 1..Len(filtered) |-> filtered[i].total])

\* utils.ts 822-853
ItemTotalCorrelation(itemValues, allResponses, itemId) ==
  IF Len(itemValues) < 3 THEN <<>>
  ELSE CorrelationOfPoints(PairedPoints(allResponses, itemId))

\* recommendedWeight * CalculateTimeMultiplier(averageTime)
\*   * CalculateConfidenceMultiplier(averageConfidence): the weight and the
\* product of the two multipliers (1/10000)
EffectiveWeight(recommendedWeight, records) ==
  [recommended |-> recommendedWeight,
   multiplier |-> CalculateTimeMultiplier(<<averageTime(records)>>)
                    * CalculateConfidenceMultiplier(<<averageConfidence(records)>>)]

\* new ItemSummary(...); double.IsNaN(average) ? null : average
ItemSummary(itemId, axis, primaryCategory, records, recommendedWeight, correlation) ==
  [itemId |-> itemId, axis |-> axis, primaryCategory |-> primaryCategory,
   mean |-> Average(Values(records)),
   variance |-> Variance(Values(records)),
   effectiveWeight |-> EffectiveWeight(recommendedWeight, records),
   recommendedWeight |-> recommendedWeight,
   itemTotalCorrelation |-> correlation,
   averageResponseTimeMs |-> <<averageTime(records)>>,
   averageConfidence |-> <<averageConfidence(records)>>]

RecordsOf(allResponses, itemId) ==
  SelectSeq(allResponses, LAMBDA r : r.itemId = itemId)

LikertSummary(item, allResponses, correlation) ==
  ItemSummary(<<item.id>>, item.axis, item.primaryCategory,
              RecordsOf(allResponses, <<item.id>>),
              CorrelationWeight(correlation), correlation)

\* ---------------------------------------------------------- CronbachAlpha
\* fractions in lowest terms, and their sum
Reduced(n, d) == Frac(n \div Gcd(Abs(n), d), d \div Gcd(Abs(n), d))
AddFrac(a, b) == Reduced(a.n * b.d + b.n * a.d, a.d * b.d)
RECURSIVE SumFracs(_)
SumFracs(fracs) ==
  IF fracs = <<>> THEN Frac(0, 1) ELSE AddFrac(fracs[1], SumFracs(Tail(fracs)))

\* The one place where the doubles of CronbachAlpha leave the fractions:
\* k * (totalVariance / k) is totalVariance again in exact arithmetic, and
\* in binary64 for every sum and k of the inputs used here except the ones
\* listed, where the product is one unit in the last place above the sum
\* (7 * (29.0 / 7) = 29.000000000000004), so that the ratio is
\* 0.9999999999999999, 1 - ratio is 2^-53 and alpha 1.295e-16.
RoundedProducts == {[sum |-> Frac(29, 1), k |-> 7]}

\* mutant: the mean variance is taken over k - 1
AlphaValue_Unbiased(k, totalVariance, sum) ==
  [n |-> k * (sum.d * k * totalVariance.n
                - sum.n * totalVariance.d * (k - 1)),
   d |-> (k - 1) * (sum.d * k * totalVariance.n),
   residue |-> 0]

\* (k / (k - 1.0)) * (1 - (sum / (k * averageVariance))), averageVariance
\* being totalVariance / k: the fraction n / d, and `residue`, the sign of
\* what the double differs from it by (0: the double is the fraction)
AlphaValue(k, totalVariance, sum) ==
  [n |-> k * (sum.d * k * totalVariance.n - sum.n * totalVariance.d * k),
   d |-> (k - 1) * (sum.d * k * totalVariance.n),
   residue |-> IF [sum |-> Reduced(sum.n, sum.d), k |-> k] \in RoundedProducts
               THEN 1 ELSE 0]

\* utils.ts 885-907; null is the empty sequence
CronbachAlpha(itemVariances, respondentCount) ==
  IF Len(itemVariances) < 2 \/ respondentCount < 2 THEN <<>>
  ELSE IF SumFracs(itemVariances).n = 0 THEN <<>>
  ELSE IF Frac(SumFracs(itemVariances).n,
               SumFracs(itemVariances).d * Len(itemVariances)).n = 0 THEN <<>>
  ELSE <<AlphaValue(Len(itemVariances), SumFracs(itemVariances),
                    SumFracs(itemVariances))>>

\* utils.ts 670-673: itemSummaries.GroupBy(s => s.Axis) and the alpha of
\* each group, the second argument being
\* Math.Max(1, responses.Count / Math.Max(pair.Value.Count, 1))
Max(a, b) == IF a > b THEN a ELSE b
OfAxis(itemSummaries, axis) == SelectSeq(itemSummaries, LAMBDA s : s.axis = axis)
VariancesOf(itemSummaries) ==
  [i \in 1..Len(itemSummaries) |-> itemSummaries[i].variance]
AxisAlphas(itemSummaries, allResponses) ==
  [axis \in {s.axis : s \in Range(itemSummaries)} |->
     CronbachAlpha(VariancesOf(OfAxis(itemSummaries, axis)),
                   Max(1, Len(allResponses)
                            \div Max(Len(OfAxis(itemSummaries, axis)), 1)))]

\* utils.ts 629-668: the item summaries
RECURSIVE AnalyzeLikert(_, _)
AnalyzeLikert(likertItems, allResponses) ==
  IF likertItems = <<>> THEN <<>>
  ELSE (IF RecordsOf(allResponses, <<likertItems[1].id>>) = <<>> THEN <<>>
        ELSE <<LikertSummary(likertItems[1], allResponses,
                             ItemTotalCorrelation(
                               Values(RecordsOf(allResponses, <<likertItems[1].id>>)),
                               allResponses, <<likertItems[1].id>>))>>)
       \o AnalyzeLikert(Tail(likertItems), allResponses)

\* utils.ts 688-724 (740-776): the options of one item
RECURSIVE AnalyzeOptions(_, _, _)
AnalyzeOptions(itemId, options, grouped) ==
  IF options = <<>> THEN <<>>
  ELSE (IF RecordsOf(grouped, <<itemId, options[1].key>>) = <<>> THEN <<>>
        ELSE <<ItemSummary(<<itemId, options[1].key>>, options[1].primary.axis,
                           options[1].primary.category,
                           RecordsOf(grouped, <<itemId, options[1].key>>),
                           Clamp(VarianceWeight(
                                   Variance(Values(RecordsOf(
                                     grouped, <<itemId, options[1].key>>)))),
                                 50, 140),
                           <<>>)>>)
       \o AnalyzeOptions(itemId, Tail(options), grouped)

RECURSIVE AnalyzeItems(_, _)
AnalyzeItems(items, grouped) ==
  IF items = <<>> THEN <<>>
  ELSE AnalyzeOptions(items[1].id, items[1].options, grouped)
       \o AnalyzeItems(Tail(items), grouped)

\* utils.ts 678-728: records whose item id contains '|'
AnalyzeForcedChoice(forcedChoiceItems, allResponses) ==
  AnalyzeItems(forcedChoiceItems,
               SelectSeq(allResponses, LAMBDA r : Len(r.itemId) > 1))

\* utils.ts 730-780: records whose item id starts with "SC-"
ScenarioIds == {"SC-1", "SC-2", "SC-3"}
AnalyzeScenario(scenarioItems, allResponses) ==
  AnalyzeItems(scenarioItems,
               SelectSeq(allResponses, LAMBDA r : r.itemId[1] \in ScenarioIds))

\* --------------------------------------------------------- AnalyzeQuality
\* responses.GroupBy(r => r.RespondentId): the keys in the order of their
\* first record
RECURSIVE RespondentIds(_, _)
RespondentIds(allResponses, seen) ==
  IF allResponses = <<>> THEN <<>>
  ELSE IF allResponses[1].respondentId \in seen
  THEN RespondentIds(Tail(allResponses), seen)
  ELSE <<allResponses[1].respondentId>>
       \o RespondentIds(Tail(allResponses),
                        seen \cup {allResponses[1].respondentId})
GroupOf(allResponses, respondentId) ==
  SelectSeq(allResponses, LAMBDA r : r.respondentId = respondentId)

\* group.Where(r => likertIds.Contains(r.ItemId)).Select(r => r.Value)
LikertValues(catalog, group) ==
  Values(SelectSeq(group, LAMBDA r : \E q \in Range(catalog.likert) :
                                       r.itemId = <<q.id>>))
\* group.Where(r => forcedPrefixes.Any(p => r.ItemId.StartsWith(p + "|")))
ForcedRows(catalog, group) ==
  SelectSeq(group, LAMBDA r : /\ Len(r.itemId) > 1
                              /\ \E q \in Range(catalog.forcedChoice) :
                                   r.itemId[1] = q.id)
\* times.Count > 0 ? times.Average() : null
AverageOrNull(values) == IF values = <<>> THEN <<>> ELSE <<Average(values)>>
GroupTimes(group) == Carried([i \in 1..Len(group) |-> group[i].responseTimeMs])
GroupConfidences(group) == Carried([i \in 1..Len(group) |-> group[i].confidence])

\* mutant: more than 10 answers are needed
Straightliner_MoreThan(likertValues) ==
  Len(likertValues) > 10 /\ Cardinality(Range(likertValues)) <= 2

\* likertValues.Count >= 10 && uniqueLikertCount <= 2
Straightliner(likertValues) ==
  Len(likertValues) >= 10 /\ Cardinality(Range(likertValues)) <= 2
\* avgTime.HasValue && avgTime < 1500
FastResponder(avgTime) == avgTime # <<>> /\ Below(avgTime[1], 1500, 1)
\* avgConfidence.HasValue && avgConfidence < 0.4, in hundredths
LowConfidence(avgConfidence) ==
  avgConfidence # <<>> /\ Below(avgConfidence[1], 40, 1)

\* the RespondentQuality of one group (800-810); the standard deviation of
\* the times, a square root, is not carried
RespondentQuality(catalog, respondentId, group) ==
  [respondentId |-> respondentId,
   likertAnswers |-> Len(LikertValues(catalog, group)),
   uniqueLikertValues |-> Cardinality(Range(LikertValues(catalog, group))),
   forcedChoiceAnswers |-> Len(ForcedRows(catalog, group)),
   averageResponseTimeMs |-> AverageOrNull(GroupTimes(group)),
   averageConfidence |-> AverageOrNull(GroupConfidences(group)),
   flagStraightliner |-> Straightliner(LikertValues(catalog, group)),
   flagFastResponder |-> FastResponder(AverageOrNull(GroupTimes(group))),
   flagLowConfidence |-> LowConfidence(AverageOrNull(GroupConfidences(group)))]

Flagged(r) == r.flagStraightliner \/ r.flagFastResponder \/ r.flagLowConfidence
RespondentSummaries(catalog, allResponses, respondentIds) ==
  [i \in 1..Len(respondentIds) |->
     RespondentQuality(catalog, respondentIds[i],
                       GroupOf(allResponses, respondentIds[i]))]
QualityReport(respondentSummaries) ==
  [respondents |-> respondentSummaries,
   flaggedRespondents |-> SelectSeq(respondentSummaries, Flagged)]
\* utils.ts 782-820
AnalyzeQuality(catalog, allResponses) ==
  QualityReport(RespondentSummaries(catalog, allResponses,
                                    RespondentIds(allResponses, {})))

\* utils.ts 619-627: the item summaries of the report,
\* likert.cronbachAlphaByAxis and responseQuality
Analyze(catalog, allResponses) ==
  [likert |-> AnalyzeLikert(catalog.likert, allResponses),
   cronbachAlphaByAxis |-> AxisAlphas(AnalyzeLikert(catalog.likert, allResponses),
                                      allResponses),
   forcedChoice |-> AnalyzeForcedChoice(catalog.forcedChoice, allResponses),
   scenario |-> AnalyzeScenario(catalog.scenario, allResponses),
   responseQuality |-> AnalyzeQuality(catalog, allResponses)]

\* --------------------------------------------------------- analyzer inputs
\* respondents are numbered 1..MaxRespondents
MaxRespondents == 3
\* records of one item in a log that varies times and confidences
MaxRecords == 2

\* Each respondent answers item L1 with one of GridValues and item L2 with
\* one of RestValues, or leaves the item out (0); respondent 1 may have answered L3 as well, or
\* respondent 2 may have a second record of L1.
GridValues == {1, 4, 7}
RestValues == {1, 7}
GridCells ==
  [k \in 1..(2 * MaxRespondents) |->
     [respondentId |-> (k + 1) \div 2, itemId |-> IF k % 2 = 1 THEN "L1" ELSE "L2"]]

RECURSIVE GridRecords(_, _)
GridRecords(grid, cells) ==
  IF cells = <<>> THEN <<>>
  ELSE (IF grid[cells[1]] = 0 THEN <<>>
        ELSE <<Record(cells[1].respondentId, <<cells[1].itemId>>, grid[cells[1]],
                      <<>>, <<>>)>>)
       \o GridRecords(grid, Tail(cells))

GridLogs ==
  {GridRecords(grid, GridCells) \o extra :
     extra \in {<<>>, <<Record(1, <<"L3">>, 3, <<>>, <<>>)>>,
                 <<Record(2, <<"L1">>, 7, <<>>, <<>>)>>},
     grid \in {g \in [Range(GridCells) -> GridValues \cup {0}] :
                  \A c \in Range(GridCells) :
                    c.itemId = "L2" => g[c] \in RestValues \cup {0}}}

\* Records of item L1 by respondents 1, 2, ... with and without a time and
\* a confidence; the records after the first draw from LaterTimes and
\* LaterConfidences, which put the averages on the bucket limits
TimeValues == {0, 1000, 2000, 4000, 6000, 7000}
ConfidenceLevels == {20, 40, 60, 80, 90}
Optional(values) == {<<>>} \cup {<<v>> : v \in values}
LaterTimes == {0, 2000, 4000, 7000}
LaterConfidences == {40, 80}
RECURSIVE TimedLogsUpTo(_)
TimedLogsUpTo(n) ==
  IF n = 0 THEN {}
  ELSE {[i \in 1..n |-> Record(i, <<"L1">>, 4, t[i], c[i])] :
          t \in {f \in [1..n -> Optional(TimeValues)] :
                   \A i \in 2..n : f[i] \in Optional(LaterTimes)},
          c \in {f \in [1..n -> Optional(ConfidenceLevels)] :
                   \A i \in 2..n : f[i] \in Optional(LaterConfidences)}}
       \cup TimedLogsUpTo(n - 1)
TimedLogs == TimedLogsUpTo(MaxRecords)

\* Records of one forced-choice or scenario option, one per respondent
OptionValues == {-1, 0, 1, 3}
RECURSIVE OptionLogsUpTo(_)
OptionLogsUpTo(n) ==
  IF n = 0 THEN {}
  ELSE {[i \in 1..n |-> Record(i, parts, v[i], <<2000>>, <<60>>)] :
          v \in [1..n -> OptionValues],
          parts \in {<<"F1", "A">>, <<"SC-1", "B">>}}
       \cup OptionLogsUpTo(n - 1)
OptionLogs == OptionLogsUpTo(MaxRespondents)

\* Three respondents answer item L1 and leave five records of other items,
\* 1 + 1 + 1 + 2 + 2 in each case
FiveOthers(respondentId) ==
  <<Record(respondentId, <<"L2">>, 1, <<>>, <<>>),
    Record(respondentId, <<"L3">>, 1, <<>>, <<>>),
    Record(respondentId, <<"L4">>, 1, <<>>, <<>>),
    Record(respondentId, <<"L2">>, 2, <<>>, <<>>),
    Record(respondentId, <<"L3">>, 2, <<>>, <<>>)>>
FifthsLogs ==
  {<<Record(1, <<"L1">>, v[1], <<>>, <<>>)>> \o FiveOthers(1)
     \o <<Record(2, <<"L1">>, v[2], <<>>, <<>>)>> \o FiveOthers(2)
     \o <<Record(3, <<"L1">>, v[3], <<>>, <<>>)>> \o FiveOthers(3) :
     v \in [1..3 -> GridValues]}

\* Three respondents choose the same option, with the values 5, 6 and 7;
\* the log may hold a row of another option as well
ExampleParts == {<<"F1", "A">>, <<"SC-2", "C">>, <<"S4", "A">>}
ExampleLogs ==
  {[i \in 1..3 |-> Record(i, parts, 4 + i, <<2000>>, <<60>>)] \o extra :
     parts \in ExampleParts,
     extra \in {<<>>, <<Record(1, <<"F2", "B">>, 2, <<2000>>, <<60>>)>>}}

\* Respondent 1 gives `count` Likert answers, going round the four items,
\* with the values of a pattern going round as well, and after them
\* perhaps a forced-choice row; respondent 2 gives one Likert answer and
\* one forced-choice row, with or without times and confidences
LikertRounds == <<"L1", "L2", "L3", "L4">>
Patterns == {<<4>>, <<3, 5>>, <<3, 4, 5>>}
AnswerCounts == {9, 10, 11}
LikertRun(count, pattern) ==
  [i \in 1..count |->
     Record(1, <<LikertRounds[((i - 1) % 4) + 1]>>,
            pattern[((i - 1) % Len(pattern)) + 1], <<>>, <<>>)]
QualityLogs ==
  {LikertRun(count, pattern) \o extra
     \o <<Record(2, <<"L1">>, 4, t1, c1), Record(2, <<"F1", "A">>, 1, t2, c2)>> :
     count \in AnswerCounts, pattern \in Patterns,
     extra \in {<<>>, <<Record(1, <<"F1", "B">>, 1, <<>>, <<>>)>>},
     t1 \in Optional({1000, 2000}), t2 \in Optional({1000, 2000}),
     c1 \in Optional({20, 40, 60}), c2 \in Optional({40})}

\* One respondent answers L1 twice and L2 and L3 once
RepeatLogs ==
  {<<Record(1, <<"L1">>, v, <<>>, <<>>), Record(1, <<"L2">>, 4, <<>>, <<>>),
     Record(1, <<"L3">>, 3, <<>>, <<>>), Record(1, <<"L1">>, w, <<>>, <<>>)>> :
     v \in GridValues, w \in GridValues}

AnalyzeInputs ==
  (GridLogs \ {<<>>})
    \cup (TimedLogs
            \cup (OptionLogs
                    \cup (FifthsLogs
                            \cup (RepeatLogs \cup (ExampleLogs \cup QualityLogs)))))

AnalyzeInit ==
  /\ analyzeIn \in AnalyzeInputs
  /\ analyzeOut = <<>>
  /\ AlphaIdle

\* the catalogs given to ScoreAnalyzer: the pools, and a scenario question
\* whose id is not of the form SC-n
AnalyzeCatalog ==
  [AggBank EXCEPT
     !.scenario = Append(@, [id |-> "S4", options |-> <<
                    [key |-> "A", primary |-> WCat("activity", "eng", 4, 100),
                     secondary |-> <<>>, tags |-> <<>>]>>])]

\* one run of ScoreAnalyzer.Analyze over those catalogs
AnalyzeCall ==
  /\ analyzeOut = <<>>
  /\ analyzeOut' = <<Analyze(AnalyzeCatalog, analyzeIn)>>
  /\ UNCHANGED <<analyzeIn, alphaIn, alphaOut>>

InitAnalyze == AnalyzeInit /\ SessionIdle /\ PickIdle /\ AggIdle /\ ApplyIdle
NextAnalyze == AnalyzeCall /\ UNCHANGED <<sessionVars, pickVars, aggVars, applyVars>>
SpecAnalyze == InitAnalyze /\ [][NextAnalyze]_vars

\* ------------------------------------------------- CronbachAlpha by itself
\* item variances of an axis: at most MaxItems of them, variances of two
\* answers on the 1..7 scale (0, 0.5, 2, 8, 18), from the fourth on 0 or 0.5
MaxItems == 7
AlphaVariances == {Frac(0, 1), Frac(1, 2), Frac(2, 1), Frac(8, 1), Frac(18, 1)}
LaterVariances == {Frac(0, 1), Frac(1, 2)}
RECURSIVE VarianceArrays(_)
VarianceArrays(k) ==
  IF k = 0 THEN {<<>>}
  ELSE {Append(v, x) : v \in VarianceArrays(k - 1),
                       x \in IF k <= 3 THEN AlphaVariances ELSE LaterVariances}
RECURSIVE VarianceArraysUpTo(_)
VarianceArraysUpTo(k) ==
  IF k = 0 THEN VarianceArrays(0)
  ELSE VarianceArrays(k) \cup VarianceArraysUpTo(k - 1)
AlphaInputs ==
  [itemVariances : VarianceArraysUpTo(MaxItems), respondentCount : {1, 2}]

AlphaInit ==
  /\ alphaIn \in AlphaInputs
  /\ alphaOut = <<>>
  /\ analyzeIn = <<>>
  /\ analyzeOut = <<>>

\* one call of CronbachAlpha
AlphaCall ==
  /\ alphaOut = <<>>
  /\ alphaOut' = <<CronbachAlpha(alphaIn.itemVariances, alphaIn.respondentCount)>>
  /\ UNCHANGED <<alphaIn, analyzeIn, analyzeOut>>

InitAlpha == AlphaInit /\ SessionIdle /\ PickIdle /\ AggIdle /\ ApplyIdle
NextAlpha == AlphaCall /\ UNCHANGED <<sessionVars, pickVars, aggVars, applyVars>>
SpecAlpha == InitAlpha /\ [][NextAlpha]_vars

\* ============================================================ claims
\* ---- helpers of the claims about the selector
Unanswered(questions, answers) ==
  LET Open(q) == q.id \notin Answered(answers) IN SelectSeq(questions, Open)
RequiredOpen(questions, answers) ==
  LET Open(q) == q.id \notin Answered(answers) /\ q.required
  IN SelectSeq(questions, Open)

\* the gain as the specification words it, as a fraction
StatedGain(q, stats) ==
  IF q.axis \notin DOMAIN stats \/ stats[q.axis].count = 0
  THEN [num |-> 1, den |-> 1]
  ELSE [num |-> Abs(4 * stats[q.axis].count - stats[q.axis].sum)
                  * (100 + SumWeights(q.relatedCategories)),
        den |-> 100 * stats[q.axis].count]
FracLess(a, b) == a.num * b.den < b.num * a.den
FracEq(a, b) == a.num * b.den = b.num * a.den

\* C1 (required-first): while a required Likert item is unanswered, a call
\* with requiredOnly = true returns a required item, for every set of
\* answered ids over the session's bank and stats; and in a session no
\* non-required item is presented while a required item is unanswered, both
\* for the item now on screen and for every item presented before it.
C1_RequiredFirst ==
  /\ \A K \in SUBSET {q.id : q \in Range(questionBank.likert)} :
       LET answers == AnswersWithKeys(K)
           r == pickNextLikertQuestion(questionBank.likert, answers, likertStats, TRUE)
       IN RequiredOpen(questionBank.likert, answers) # <<>>
            => r # <<>> /\ r[1].required
  /\ (step = "likert" /\ currentLikertQuestion # <<>>
        /\ RequiredOpen(questionBank.likert, likertAnswers) # <<>>)
       => currentLikertQuestion[1].required
  /\ \A k \in 1..Len(presented) :
       LET before == [i \in 1..(k - 1) |-> [id |-> presented[i], value |-> 4]]
           Match(q) == q.id = presented[k]
       IN RequiredOpen(questionBank.likert, before) # <<>>
            => FindFirst(questionBank.likert, Match)[1].required

\* C1 witness: a required item is on screen although an unanswered
\* non-required item has a strictly larger gain.
C1_Witness ==
  /\ step = "likert"
  /\ currentLikertQuestion # <<>>
  /\ currentLikertQuestion[1].required
  /\ \E q \in Range(Unanswered(questionBank.likert, likertAnswers)) :
       /\ ~q.required
       /\ FracLess(StatedGain(currentLikertQuestion[1], likertStats),
                   StatedGain(q, likertStats))

\* C2: the selector never returns an answered item, returns none exactly
\* when every item of the list is answered, and with requiredOnly = true and
\* no unanswered required item returns what the call with requiredOnly =
\* false returns.
C2_PickUnanswered ==
  pickOut # <<>> =>
    LET r == pickOut[1]
        open == Unanswered(pickIn.questions, pickIn.answers)
    IN /\ r # <<>> => /\ r[1] \in Range(pickIn.questions)
                      /\ r[1].id \notin Answered(pickIn.answers)
       /\ (r = <<>>) <=> (open = <<>>)
       /\ (pickIn.requiredOnly
             /\ RequiredOpen(pickIn.questions, pickIn.answers) = <<>>)
            => r = pickNextLikertQuestion(pickIn.questions, pickIn.answers,
                                          pickIn.stats, FALSE)

\* C2 witness: a requiredOnly call that falls back to a non-required item
C2_Witness ==
  /\ pickOut # <<>>
  /\ pickIn.requiredOnly
  /\ RequiredOpen(pickIn.questions, pickIn.answers) = <<>>
  /\ Answered(pickIn.answers) # {}
  /\ pickOut[1] # <<>>
  /\ ~pickOut[1][1].required

\* the candidates of a call as the specification words them
StatedCandidates(in) ==
  IF in.requiredOnly /\ RequiredOpen(in.questions, in.answers) # <<>>
  THEN RequiredOpen(in.questions, in.answers)
  ELSE Unanswered(in.questions, in.answers)

\* C3: the returned item has the maximum gain among the candidates, and
\* among the candidates of maximum gain it is the first of the list.
C3_MaxGainFirst ==
  (pickOut # <<>> /\ StatedCandidates(pickIn) # <<>>) =>
    LET cands == StatedCandidates(pickIn)
        r == pickOut[1]
    IN /\ r # <<>>
       /\ \E i \in 1..Len(cands) :
            /\ cands[i] = r[1]
            /\ \A j \in 1..Len(cands) :
                 ~FracLess(StatedGain(r[1], pickIn.stats),
                           StatedGain(cands[j], pickIn.stats))
            /\ \A j \in 1..(i - 1) :
                 FracLess(StatedGain(cands[j], pickIn.stats),
                          StatedGain(r[1], pickIn.stats))

\* C3 witness: the returned item is not the first candidate, an earlier
\* candidate has a smaller gain and a later one has the same gain, and the
\* gains involved are not all the 1.0 of an unobserved axis.
C3_Witness ==
  /\ pickOut # <<>>
  /\ pickOut[1] # <<>>
  /\ LET cands == StatedCandidates(pickIn)
         r == pickOut[1][1]
     IN /\ Len(cands) = 3
        /\ cands[2] = r
        /\ FracLess(StatedGain(cands[1], pickIn.stats), StatedGain(r, pickIn.stats))
        /\ FracEq(StatedGain(cands[3], pickIn.stats), StatedGain(r, pickIn.stats))
        /\ r.axis \in DOMAIN pickIn.stats
        /\ pickIn.stats[r.axis].count > 0

\* C4 (Likert phase termination): the step leaves 'likert' for
\* 'forced-choice' only when the selector yields none, every Likert item is
\* answered, and the items presented are the items of the list, each exactly
\* once and each answered in the order presented.
LikertPhaseDone ==
  /\ pickNextLikertQuestion(questionBank.likert, likertAnswers, likertStats, TRUE) = <<>>
  /\ pickNextLikertQuestion(questionBank.likert, likertAnswers, likertStats, FALSE) = <<>>
  /\ Unanswered(questionBank.likert, likertAnswers) = <<>>
  /\ Len(likertAnswers) = Len(questionBank.likert)
  /\ presented = [i \in 1..Len(likertAnswers) |-> likertAnswers[i].id]
  /\ \A i, j \in 1..Len(presented) : i # j => presented[i] # presented[j]
  /\ Range(presented) = {q.id : q \in Range(questionBank.likert)}

C4_LikertTermination ==
  [][(step = "likert" /\ step' = "forced-choice") => LikertPhaseDone']_vars

\* C4 witness: the phase has ended for a bank of three items, one optional
C4_Witness ==
  /\ step = "forced-choice"
  /\ Len(questionBank.likert) = 3
  /\ Len(likertAnswers) = 3
  /\ \E q \in Range(questionBank.likert) : ~q.required

\* ---------------------------------------------------------------- C5..C7
ScoreOf(scores, key) ==
  LET Match(e) == e.key = key
      hit == FindFirst(scores, Match)
  IN IF hit = <<>> THEN Num(0) ELSE hit[1].value

CategoryNames == {"eng", "art", "biz", "med"}
TagNames == {"t1", "t2", "t3"}

LikertItem(bank, id) == CHOOSE q \in Range(bank.likert) : q.id = id

\* the bank with item `id` made positive, everything else identical
AsPositive(bank, id) ==
  [bank EXCEPT !.likert =
     [i \in 1..Len(bank.likert) |->
        IF bank.likert[i].id = id
        THEN [bank.likert[i] EXCEPT !.polarity = "positive"]
        ELSE bank.likert[i]]]

\* C5: polarity round trip.  Whenever the aggregator has run over answers
\* that hold a reverse-polarity item answered v, its category, aptitude and
\* tag scores and its axis stats are those of the same answers over a bank
\* where that item is positive and answered 8 - v; an answer of v to a
\* reverse item alone puts 8 - v into its primaryCategory (2 gives 6).
C5_PolarityRoundTrip ==
  aggOut # <<>> =>
    \A i \in 1..Len(aggIn.likert) :
      LET answer == aggIn.likert[i]
          item == LikertItem(aggIn.bank, answer.id)
          bank2 == AsPositive(aggIn.bank, answer.id)
          likert2 == [aggIn.likert EXCEPT ![i].value = 8 - answer.value]
      IN item.polarity = "reverse" =>
           /\ aggOut[1].categoryScore
                \in categoryScore(bank2, likert2, aggIn.forced, aggIn.scenario)
           /\ aggOut[1].aptitudeScores
                \in aptitudeScores(bank2, likert2, aggIn.forced, aggIn.scenario)
           /\ aggOut[1].tagScores
                \in tagScores(bank2, likert2, aggIn.forced, aggIn.scenario)
           /\ aggOut[1].likertStats = recomputeAxisStats(bank2.likert, likert2)
           /\ (Len(aggIn.likert) = 1 /\ aggIn.forced = <<>> /\ aggIn.scenario = <<>>)
                => /\ ScoreOf(aggOut[1].categoryScore, item.primaryCategory)
                        = Num((8 - answer.value) * 10000)
                   /\ aggOut[1].likertStats[item.axis]
                        = [sum |-> 8 - answer.value, count |-> 1]

\* the example: reverse item L2 answered 2 has put 6 into "art"
C5_Witness ==
  /\ aggOut # <<>>
  /\ aggIn.likert = <<[id |-> "L2", value |-> 2]>>
  /\ aggIn.forced = <<>> /\ aggIn.scenario = <<>>
  /\ ScoreOf(aggOut[1].categoryScore, "art") = Num(60000)
  /\ ScoreOf(aggOut[1].aptitudeScores, "art") = Num(60000)
  /\ ScoreOf(aggOut[1].tagScores, "t2") = Num(6000000)

RemoveAt(s, i) == [j \in 1..(Len(s) - 1) |-> IF j < i THEN s[j] ELSE s[j + 1]]

\* score * weight * confidence of the weighted categories naming c, 1/10000
RECURSIVE StatedSecondary(_, _, _)
StatedSecondary(secs, confidence, c) ==
  IF secs = <<>> THEN 0
  ELSE (IF secs[1].category = c THEN secs[1].score * secs[1].weight * confidence * 10
        ELSE 0)
       + StatedSecondary(Tail(secs), confidence, c)
StatedForced(option, confidence, c) ==
  StatedSecondary(<<option.primary>> \o option.secondary, confidence, c)

\* C6: forced-choice contribution.  With a recorded SKIP answer the
\* category, aptitude and tag scores are those of the answers without it;
\* with any other recorded answer every category score is the score
\* without it plus score * weight * confidence of the option's primary and
\* secondary entries naming that category (5, 1, 0.8 adds 4.0).
C6_ForcedContribution ==
  aggOut # <<>> =>
    \A i \in 1..Len(aggIn.forced) :
      LET answer == aggIn.forced[i]
          rest == RemoveAt(aggIn.forced, i)
      IN IF answer.optionKey = "SKIP"
         THEN /\ aggOut[1].categoryScore
                   \in categoryScore(aggIn.bank, aggIn.likert, rest, aggIn.scenario)
              /\ aggOut[1].aptitudeScores
                   \in aptitudeScores(aggIn.bank, aggIn.likert, rest, aggIn.scenario)
              /\ aggOut[1].tagScores
                   \in tagScores(aggIn.bank, aggIn.likert, rest, aggIn.scenario)
         ELSE LET question == CHOOSE q \in Range(aggIn.bank.forcedChoice) :
                                q.id = answer.key[1]
                  option == CHOOSE o \in Range(question.options) :
                              o.key = answer.optionKey
              IN \A c \in CategoryNames :
                   ScoreOf(aggOut[1].categoryScore, c)
                     = AddNum(ScoreOf(categoryScoreMap(aggIn.bank, aggIn.likert, rest,
                                                       aggIn.scenario), c),
                              Num(StatedForced(option, answer.confidence, c)))

\* a SKIP and the example answer (score 5, weight 1, confidence 0.8)
C6_Witness ==
  /\ aggOut # <<>>
  /\ aggIn.likert = <<>> /\ aggIn.scenario = <<>>
  /\ aggIn.forced = <<[key |-> <<"F2", "SKIP">>, optionKey |-> "SKIP", confidence |-> 0],
                      [key |-> <<"F1", "A">>, optionKey |-> "A", confidence |-> 8]>>
  /\ ScoreOf(aggOut[1].categoryScore, "eng") = Num(40000)
  /\ ScoreOf(aggOut[1].categoryScore, "art") = Num(8000)
  /\ Len(aggOut[1].categoryScore) = 2

Truncated(answers) ==
  [i \in 1..Len(answers) |-> [answers[i] EXCEPT !.rankedOptions = Prefix(@, 3)]]

\* C7: scenario contribution.  The category, aptitude and tag scores the
\* aggregator returns for any rankings equal those of the rankings
\* truncated to their first three keys (rank 3 and beyond add zero).
C7_ScenarioRankWeights ==
  aggOut # <<>> =>
    /\ \A c \in CategoryNames :
         /\ ScoreOf(aggOut[1].categoryScore, c)
              = ScoreOf(categoryScoreMap(aggIn.bank, aggIn.likert, aggIn.forced,
                                         Truncated(aggIn.scenario)), c)
         /\ ScoreOf(aggOut[1].aptitudeScores, c)
              = ScoreOf(aptitudeScoreMap(aggIn.bank, aggIn.likert, aggIn.forced,
                                         Truncated(aggIn.scenario)), c)
    /\ \A t \in TagNames :
         ScoreOf(aggOut[1].tagScores, t)
           = ScoreOf(tagScoreMap(aggIn.bank, aggIn.likert, aggIn.forced,
                                 Truncated(aggIn.scenario)), t)

\* --------------------------------------------------------------- C8..C10
HasField(node, name) == \E f \in Range(node.fields) : f.name = name
Field(node, name) == (CHOOSE f \in Range(node.fields) : f.name = name).value
Named(node, name, str) ==
  node.t = "object" /\ HasField(node, name) /\ Field(node, name) = JStr(str)
FirstNamed(elems, name, str) ==
  IF \E k \in 1..Len(elems) : Named(elems[k], name, str)
  THEN CHOOSE k \in 1..Len(elems) :
         Named(elems[k], name, str) /\ \A m \in 1..(k - 1) : ~Named(elems[m], name, str)
  ELSE 0

\* the option a composite id names in a catalog tree, and its primary
ItemAt(root, parts) ==
  Field(root, "items").elems[FirstNamed(Field(root, "items").elems, "id", parts[1])]
OptionAt(root, parts) ==
  Field(ItemAt(root, parts), "options").elems[
    FirstNamed(Field(ItemAt(root, parts), "options").elems, "key", parts[2])]
Targets(root, parts) ==
  /\ Len(parts) = 2
  /\ FirstNamed(Field(root, "items").elems, "id", parts[1]) > 0
  /\ HasField(ItemAt(root, parts), "options")
  /\ Field(ItemAt(root, parts), "options").t = "array"
  /\ FirstNamed(Field(ItemAt(root, parts), "options").elems, "key", parts[2]) > 0
  /\ HasField(OptionAt(root, parts), "primary")
  /\ Field(OptionAt(root, parts), "primary").t = "object"
PrimaryAt(root, parts) == Field(OptionAt(root, parts), "primary")
StatedWeight(primary) ==
  IF HasField(primary, "weight") THEN Field(primary, "weight").v ELSE 100

Written(path) == \E k \in 1..Len(applyRun.written) : applyRun.written[k] = path
Paths == {"forced", "scenario"}

\* C8: tolerance gating.  In a catalog the applier has rewritten, every
\* option a summary targets has primary.weight equal to the recommended
\* weight if |current - recommended| >= tolerance and its primary as it
\* was otherwise, and the count returned for the file is the number of
\* summaries of the first kind.
C8_ToleranceGating ==
  applyRun # <<>> =>
    \A path \in Paths :
      Written(path) =>
        LET before == applyRun.before[path].root
            after == files[path].root
            summaries == applyRun.report[path]
            Due(k) == /\ Targets(before, summaries[k].itemId)
                      /\ Abs(StatedWeight(PrimaryAt(before, summaries[k].itemId))
                               - summaries[k].recommendedWeight) >= applyRun.tolerance
        IN /\ \A k \in 1..Len(summaries) :
                Targets(before, summaries[k].itemId) =>
                  IF Due(k)
                  THEN /\ HasField(PrimaryAt(after, summaries[k].itemId), "weight")
                       /\ Field(PrimaryAt(after, summaries[k].itemId), "weight")
                            = JNum(summaries[k].recommendedWeight)
                  ELSE PrimaryAt(after, summaries[k].itemId)
                         = PrimaryAt(before, summaries[k].itemId)
           /\ applyRun.counts[path] = Cardinality({k \in 1..Len(summaries) : Due(k)})

\* tolerance 0.05: current 1.0 (no weight stored) and recommended 1.03 is
\* left alone, current 1.0 and recommended 1.10 is the one update
C8_Witness ==
  /\ applyRun # <<>>
  /\ applyRun.pc = "done"
  /\ applyRun.tolerance = 5
  /\ applyRun.before.forced = Document(ForcedTree(JNum(100)))
  /\ applyRun.report.forced
       = <<Summary(<<"F1", "A">>, 110), Summary(<<"F1", "B">>, 103)>>
  /\ applyRun.printed[1].forced = 1
  /\ Field(PrimaryAt(files.forced.root, <<"F1", "A">>), "weight") = JNum(110)
  /\ ~HasField(PrimaryAt(files.forced.root, <<"F1", "B">>), "weight")

\* a tree without the primary.weight leaves of the options that summaries
\* with an id of the form questionId|optionKey name
WithoutField(node, name) ==
  LET Other(f) == f.name # name IN JObj(SelectSeq(node.fields, Other))
MapField(node, name, F(_)) ==
  JObj([k \in 1..Len(node.fields) |->
          IF node.fields[k].name = name
          THEN Prop(name, F(node.fields[k].value)) ELSE node.fields[k]])
MapElems(node, F(_)) ==
  IF node.t = "array" THEN JArr([k \in 1..Len(node.elems) |-> F(node.elems[k])])
  ELSE node
Masked(root, summaries) ==
  LET Ids == {summaries[k].itemId : k \in 1..Len(summaries)}
      MaskPrimary(primary) ==
        IF primary.t = "object" THEN WithoutField(primary, "weight") ELSE primary
      MaskOption(id, option) ==
        IF option.t = "object" /\ HasField(option, "key")
             /\ \E parts \in Ids : Len(parts) = 2 /\ parts[1] = id
                                    /\ Field(option, "key") = JStr(parts[2])
        THEN MapField(option, "primary", MaskPrimary)
        ELSE option
      MaskItem(item) ==
        IF item.t = "object" /\ HasField(item, "id") /\ Field(item, "id").t = "string"
        THEN LET MaskIn(option) == MaskOption(Field(item, "id").s, option)
                 MaskOptions(options) == MapElems(options, MaskIn)
             IN MapField(item, "options", MaskOptions)
        ELSE item
      MaskItems(items) == MapElems(items, MaskItem)
  IN MapField(root, "items", MaskItems)

\* C9: partial-update frame.  The Likert catalog is never changed; a
\* forced-choice or scenario catalog is either as it was or was rewritten
\* with a tree that differs from the old one only in primary.weight leaves
\* of options named by a summary id of the form questionId|optionKey.
C9_PartialUpdateFrame ==
  applyRun # <<>> =>
    /\ files.likert = applyRun.before.likert
    /\ \A path \in Paths :
         \/ files[path] = applyRun.before[path]
         \/ /\ Written(path)
            /\ files[path].kind = "document"
            /\ applyRun.before[path].kind = "document"
            /\ Masked(files[path].root, applyRun.report[path])
                 = Masked(applyRun.before[path].root, applyRun.report[path])

\* both catalogs rewritten, with one weight changed and one added, the
\* secondary weight and the unknown fields still there
C9_Witness ==
  /\ applyRun # <<>>
  /\ applyRun.pc = "done"
  /\ applyRun.written = <<"forced", "scenario">>
  /\ applyRun.printed[1] = [forced |-> 2, scenario |-> 1]
  /\ files.forced # applyRun.before.forced
  /\ files.scenario # applyRun.before.scenario
  /\ Field(PrimaryAt(files.forced.root, <<"F1", "A">>), "memo") = JStr("m")
  /\ Field(PrimaryAt(files.forced.root, <<"F1", "B">>), "weight") = JNum(110)
  /\ Field(OptionAt(files.forced.root, <<"F1", "A">>), "secondary")
       = Field(OptionAt(applyRun.before.forced.root, <<"F1", "A">>), "secondary")

BadFile(content) ==
  \/ content.kind \in {"missing", "unparseable"}
  \/ /\ content.kind = "document"
     /\ \/ content.root.t # "object"
        \/ ~HasField(content.root, "items")
        \/ Field(content.root, "items").t # "array"

Handled(path) ==
  /\ ~(applyRun.at = path /\ applyRun.pc = "read")
  /\ path = "scenario" => applyRun.at = "scenario"

\* C10: failure policy.  Once the applier has dealt with a catalog that is
\* missing, not parseable or without an items array, it has warned about
\* that file, has not written it and has not aborted, and a run that has
\* ended has dealt with both catalogs.
C10_FailurePolicy ==
  applyRun # <<>> =>
    /\ \A path \in Paths :
         (BadFile(applyRun.before[path]) /\ Handled(path)) =>
           /\ \E k \in 1..Len(applyRun.warnings) : applyRun.warnings[k].path = path
           /\ ~Written(path)
           /\ files[path] = applyRun.before[path]
           /\ ~(applyRun.pc = "aborted" /\ applyRun.at = path)
    /\ (BadFile(applyRun.before.forced) /\ applyRun.pc \in {"done", "aborted"})
         => applyRun.at = "scenario"

\* ------------------------------------------------------------------- C15
\* all addScore calls of the categoryScore memo, in call order
CategoryContributions ==
  AllAdds(aggIn.bank, aggIn.likert, "likert")
    \o AllAdds(aggIn.bank, aggIn.forced, "forced")
    \o AllAdds(aggIn.bank, aggIn.scenario, "scenario")

\* the sum of the contributions to category c made on one of the axes
RECURSIVE SumOnAxes(_, _, _)
SumOnAxes(adds, c, axes) ==
  IF adds = <<>> THEN Num(0)
  ELSE IF adds[1].category = c /\ adds[1].axis \in axes
       THEN AddNum(adds[1].value, SumOnAxes(Tail(adds), c, axes))
       ELSE SumOnAxes(Tail(adds), c, axes)

\* C15: aptitude score restriction.  After the aggregator has run, the
\* aptitude score of every category is the sum of the category-score
\* contributions to it whose own axis is "activity" or "learning_style", a
\* category is listed exactly when such a contribution names it, and so the
\* contributions made on other axes leave every aptitude score as it is.
C15_AptitudeRestriction ==
  aggOut # <<>> =>
    LET adds == CategoryContributions
    IN \A c \in CategoryNames :
         /\ ScoreOf(aggOut[1].aptitudeScores, c)
              = SumOnAxes(adds, c, {"activity", "learning_style"})
         /\ (\E i \in 1..Len(aggOut[1].aptitudeScores) :
                aggOut[1].aptitudeScores[i].key = c)
              <=> \E j \in 1..Len(adds) :
                    /\ adds[j].category = c
                    /\ adds[j].axis \in {"activity", "learning_style"}

\* item L3 (axis interest) answered 5: its primary and its interest-axis
\* related entry reach only categoryScore, its learning_style related
\* entry (weight 0.3) reaches the aptitude score of "eng"
C15_Witness ==
  /\ aggOut # <<>>
  /\ aggIn.likert = <<[id |-> "L3", value |-> 5]>>
  /\ aggIn.forced = <<>> /\ aggIn.scenario = <<>>
  /\ ScoreOf(aggOut[1].categoryScore, "biz") = Num(60000)
  /\ aggOut[1].aptitudeScores = <<[key |-> "eng", value |-> Num(15000)]>>

\* ------------------------------------------------------------------- C16
TopSet == {aggOut[1].categoryScore[i].key : i \in 1..Len(aggOut[1].categoryScore)}

\* C16: co-occurrence canonical form.  After the aggregator has run, every
\* triple of cooccurrenceData has x # y, x before y in string order, both
\* among the categories of categoryScore, and a count of at least 1; no two
\* triples name the same unordered pair.
C16_CanonicalPairs ==
  aggOut # <<>> =>
    LET data == aggOut[1].cooccurrenceData
    IN /\ \A i \in 1..Len(data) :
            /\ data[i].x # data[i].y
            /\ StrLess(data[i].x, data[i].y)
            /\ data[i].x \in TopSet /\ data[i].y \in TopSet
            /\ data[i].z >= 1
       /\ \A i, j \in 1..Len(data) :
            i # j => {data[i].x, data[i].y} # {data[j].x, data[j].y}

\* the pool bank with eng, art and biz scored: L1 lists (eng, art) and L3
\* lists (biz, eng), which are output as (art, eng) and (biz, eng)
C16_Witness ==
  /\ aggOut # <<>>
  /\ aggIn.bank = AggBank
  /\ {"eng", "art", "biz"} \subseteq TopSet
  /\ \E i, j \in 1..Len(aggOut[1].cooccurrenceData) :
       /\ aggOut[1].cooccurrenceData[i].x = "art"
       /\ aggOut[1].cooccurrenceData[i].y = "eng"
       /\ aggOut[1].cooccurrenceData[j].x = "biz"
       /\ aggOut[1].cooccurrenceData[j].y = "eng"

\* ------------------------------------------------------------------- C17
\* the count cooccurrenceData gives the unordered pair {a, b}; 0 when the
\* pair is not listed
PairCount(data, a, b) ==
  LET Match(t) == {t.x, t.y} = {a, b}
      hit == FindFirst(data, Match)
  IN IF hit = <<>> THEN 0 ELSE hit[1].z

\* a Likert question lists both with its primary and related categories; a
\* forced-choice or scenario question lists both when one of its options
\* does with its primary and secondary categories
LikertHasPair(q, a, b) ==
  {a, b} \subseteq Range(CategoriesOf(q.primaryCategory, q.relatedCategories))
OptionsHavePair(q, a, b) ==
  \E o \in Range(q.options) :
    {a, b} \subseteq Range(CategoriesOf(o.primary.category, o.secondary))

QuestionsWithPair(bank, a, b) ==
  Cardinality({i \in 1..Len(bank.likert) : LikertHasPair(bank.likert[i], a, b)})
    + Cardinality({i \in 1..Len(bank.forcedChoice) :
                     OptionsHavePair(bank.forcedChoice[i], a, b)})
    + Cardinality({i \in 1..Len(bank.scenario) :
                     OptionsHavePair(bank.scenario[i], a, b)})

\* C17: co-occurrence counting per question.  After the aggregator has
\* run, for any two distinct categories of categoryScore the count of their
\* pair is the number of questions of the bank that list both: a question
\* counts once, however often it lists a category and however many of its
\* options carry the pair.
C17_PairCountPerQuestion ==
  aggOut # <<>> =>
    \A a, b \in TopSet :
      a # b => PairCount(aggOut[1].cooccurrenceData, a, b)
                 = QuestionsWithPair(aggIn.bank, a, b)

\* ------------------------------------------------------------------- C18
\* IEEE >= : false when an operand is NaN
NumGeq(a, b) == ~a.nan /\ ~b.nan /\ a.v >= b.v

\* position of a category in the order of its first addScore call
Discovery(scores, key) ==
  CHOOSE i \in 1..Len(scores) : scores[i].key = key

\* descending, and entries of equal score in the order of `discovered`
Ordered(sorted, discovered) ==
  /\ \A i \in 1..(Len(sorted) - 1) : NumGeq(sorted[i].value, sorted[i + 1].value)
  /\ \A i, j \in 1..Len(sorted) :
       (i < j /\ sorted[i].value = sorted[j].value)
         => Discovery(discovered, sorted[i].key) < Discovery(discovered, sorted[j].key)

\* C18: output ordering.  After the aggregator has run, categoryScore and
\* aptitudeScores are in descending order of score (each entry's score is
\* >= the next one's) and entries of equal score are in the order in which
\* their categories were first added to.
C18_OutputOrdering ==
  aggOut # <<>> =>
    /\ Ordered(aggOut[1].categoryScore,
               categoryScoreMap(aggIn.bank, aggIn.likert, aggIn.forced, aggIn.scenario))
    /\ Ordered(aggOut[1].aptitudeScores,
               aptitudeScoreMap(aggIn.bank, aggIn.likert, aggIn.forced, aggIn.scenario))

\* ------------------------------------------------------------------- C19
MulNum(a, w) == IF a.nan THEN NaN ELSE Num(a.v * w)

\* a primary contribution (1/10000) times the weight of each tag
TaggedBy(tags, primary, questionId) ==
  [i \in 1..Len(tags) |->
     [name |-> tags[i].name, value |-> MulNum(primary, tags[i].weight),
      questionId |-> questionId]]

RECURSIVE StatedLikertTags(_, _)
StatedLikertTags(bank, answers) ==
  IF answers = <<>> THEN <<>>
  ELSE (IF LikertAdds(bank, answers[1]) = <<>> THEN <<>>
        ELSE TaggedBy(LikertItem(bank, answers[1].id).tags,
                      LikertAdds(bank, answers[1])[1].value, answers[1].id))
       \o StatedLikertTags(bank, Tail(answers))

RECURSIVE StatedForcedTags(_, _)
StatedForcedTags(bank, answers) ==
  IF answers = <<>> THEN <<>>
  ELSE (IF ForcedAdds(bank, answers[1]) = <<>> THEN <<>>
        ELSE TaggedBy(FindOption(bank.forcedChoice, answers[1].key[1],
                                 answers[1].optionKey)[1].tags,
                      ForcedAdds(bank, answers[1])[1].value, answers[1].key[1]))
       \o StatedForcedTags(bank, Tail(answers))

RECURSIVE StatedRankedTags(_, _, _, _)
StatedRankedTags(bank, answer, ranked, index) ==
  IF ranked = <<>> THEN <<>>
  ELSE (IF FindOption(bank.scenario, answer.id, ranked[1]) = <<>> THEN <<>>
        ELSE LET option == FindOption(bank.scenario, answer.id, ranked[1])[1]
             IN TaggedBy(option.tags,
                         RankProduct(option.primary.score * option.primary.weight, index),
                         answer.id))
       \o StatedRankedTags(bank, answer, Tail(ranked), index + 1)

RECURSIVE StatedScenarioTags(_, _)
StatedScenarioTags(bank, answers) ==
  IF answers = <<>> THEN <<>>
  ELSE StatedRankedTags(bank, answers[1], answers[1].rankedOptions, 0)
       \o StatedScenarioTags(bank, Tail(answers))

TagContributions ==
  StatedLikertTags(aggIn.bank, aggIn.likert)
    \o StatedForcedTags(aggIn.bank, aggIn.forced)
    \o StatedScenarioTags(aggIn.bank, aggIn.scenario)

RECURSIVE SumForTag(_, _)
SumForTag(contributions, name) ==
  IF contributions = <<>> THEN Num(0)
  ELSE IF contributions[1].name = name
       THEN AddNum(contributions[1].value, SumForTag(Tail(contributions), name))
       ELSE SumForTag(Tail(contributions), name)

\* the question ids contributing to the tag, each at its first occurrence
RECURSIVE FirstContributions(_, _, _)
FirstContributions(contributions, name, seen) ==
  IF contributions = <<>> THEN <<>>
  ELSE IF contributions[1].name = name /\ contributions[1].questionId \notin seen
       THEN <<contributions[1].questionId>>
              \o FirstContributions(Tail(contributions), name,
                                    seen \cup {contributions[1].questionId})
       ELSE FirstContributions(Tail(contributions), name, seen)

\* C19: tag score.  After the aggregator has run, the tags listed are those
\* of the items and options whose answers contributed to category scoring;
\* each tag's score is the sum, over those answers, of the primary
\* contribution times the tag's weight, and its question list holds the ids
\* of the contributing questions, each once, in order of first contribution.
C19_TagScore ==
  aggOut # <<>> =>
    LET stated == TagContributions
    IN /\ {aggOut[1].tagScores[i].key : i \in 1..Len(aggOut[1].tagScores)}
            = {stated[j].name : j \in 1..Len(stated)}
       /\ \A i \in 1..Len(aggOut[1].tagScores) :
            LET entry == aggOut[1].tagScores[i]
            IN /\ entry.value = SumForTag(stated, entry.key)
               /\ entry.questions = FirstContributions(stated, entry.key, {})
               /\ \A j, k \in 1..Len(entry.questions) :
                    j # k => entry.questions[j] # entry.questions[k]

\* both options of F3 recorded (keys F3|A and F3|B), each tagged t1: the
\* tag holds 3 * 0.8 + 4 * 0.8 = 5.6 and lists F3 once
C19_Witness ==
  /\ aggOut # <<>>
  /\ aggIn.bank = PairedBank
  /\ aggIn.likert = <<>>
  /\ Len(aggIn.forced) = 2
  /\ aggOut[1].tagScores
       = <<[key |-> "t1", value |-> Num(5600000), questions |-> <<"F3">>]>>

\* ------------------------------------------------------------------- C11
\* the weight c / 100 + (k / 100) * r against p / 100
WeightBelow(w, p) ==
  IF w.k = 0 THEN w.c < p ELSE CorrBelow(w.r, p - w.c, w.k)
WeightAbove(w, p) ==
  IF w.k = 0 THEN w.c > p ELSE CorrBelow(CorrNeg(w.r), w.c - p, w.k)

\* w is the number c / 100
IsConstant(w, c) == w.k = 0 /\ w.c = c

\* w is clamp(1 + 0.5 * r, 0.4, 1.6)
IsClampedHalf(w, r) ==
  IF CorrBelow(r, -6, 5) THEN IsConstant(w, 40)
  ELSE IF CorrBelow(CorrNeg(r), -6, 5) THEN IsConstant(w, 160)
  ELSE w.c = 100 /\ w.k = 50 /\ w.r = r

LikertIdsAnswered ==
  {q.id : q \in {x \in Range(AggBank.likert) :
                   \E i \in 1..Len(analyzeIn) : analyzeIn[i].itemId = <<x.id>>}}

\* C11: Likert recommended weight.  After an analysis every Likert item
\* with at least one response has a summary; its recommendedWeight is
\* clamp(1 + 0.5 * correlation, 0.4, 1.6) of the item-total correlation it
\* reports when that is defined and exactly 1.0 when it is not, and it lies
\* in [0.4, 1.6].
C11_LikertRecommendedWeight ==
  analyzeOut # <<>> =>
    /\ {analyzeOut[1].likert[i].itemId[1] : i \in 1..Len(analyzeOut[1].likert)}
         = LikertIdsAnswered
    /\ \A i \in 1..Len(analyzeOut[1].likert) :
         LET s == analyzeOut[1].likert[i]
         IN /\ IF s.itemTotalCorrelation = <<>>
               THEN IsConstant(s.recommendedWeight, 100)
               ELSE IsClampedHalf(s.recommendedWeight, s.itemTotalCorrelation[1])
            /\ ~WeightBelow(s.recommendedWeight, 40)
            /\ ~WeightAbove(s.recommendedWeight, 160)

\* one item with a correlation strictly between 0 and 1 and the weight
\* 1 + r / 2, another without a correlation and the weight 1.0
C11_Witness ==
  /\ analyzeOut # <<>>
  /\ \E i, j \in 1..Len(analyzeOut[1].likert) :
       /\ analyzeOut[1].likert[i].itemTotalCorrelation # <<>>
       /\ analyzeOut[1].likert[i].itemTotalCorrelation[1].num > 0
       /\ CorrBelow(analyzeOut[1].likert[i].itemTotalCorrelation[1], 1, 1)
       /\ analyzeOut[1].likert[i].recommendedWeight.k = 50
       /\ analyzeOut[1].likert[j].itemTotalCorrelation = <<>>
       /\ IsConstant(analyzeOut[1].likert[j].recommendedWeight, 100)

\* ------------------------------------------------------------------- C12
OptionSummaries == analyzeOut[1].forcedChoice \o analyzeOut[1].scenario

RecordedValues(itemId) ==
  Values(SelectSeq(analyzeIn, LAMBDA r : r.itemId = itemId))

\* the sample variance (n * sum of squares - square of the sum) / (n (n - 1))
\* of the values exceeds p / q; a single value has no spread
SampleVarianceAbove(values, p, q) ==
  /\ Len(values) > 1
  /\ (Len(values) * DotProduct(values, values) - SumSeq(values) * SumSeq(values)) * q
       > p * Len(values) * (Len(values) - 1)

StatedOptionWeight(values) ==
  IF SampleVarianceAbove(values, 2, 1) THEN 120
  ELSE IF SampleVarianceAbove(values, 1, 1) THEN 100
  ELSE IF SampleVarianceAbove(values, 1, 2) THEN 80
  ELSE 60

OptionIdsAnswered ==
  UNION {{<<q.id, o.key>> : o \in Range(q.options)} :
           q \in Range(AggBank.forcedChoice) \cup Range(AggBank.scenario)}
    \cap {analyzeIn[i].itemId : i \in 1..Len(analyzeIn)}

\* C12: option recommended weight.  After an analysis every forced-choice
\* or scenario option with responses has a summary, whose recommendedWeight
\* is 1.2 if the sample variance of its values is > 2, 1.0 if > 1, 0.8 if
\* > 0.5 and 0.6 otherwise, and lies in [0.5, 1.4].
C12_OptionRecommendedWeight ==
  analyzeOut # <<>> =>
    /\ {OptionSummaries[i].itemId : i \in 1..Len(OptionSummaries)} = OptionIdsAnswered
    /\ \A i \in 1..Len(OptionSummaries) :
         /\ OptionSummaries[i].recommendedWeight
              = StatedOptionWeight(RecordedValues(OptionSummaries[i].itemId))
         /\ OptionSummaries[i].recommendedWeight >= 50
         /\ OptionSummaries[i].recommendedWeight <= 140

\* the values -1, 1, 3 of a scenario option: variance 4, weight 1.2
C12_Witness ==
  /\ analyzeOut # <<>>
  /\ Len(analyzeOut[1].scenario) = 1
  /\ RecordedValues(<<"SC-1", "B">>) = <<-1, 1, 3>>
  /\ analyzeOut[1].scenario[1].variance = Frac(72, 18)
  /\ analyzeOut[1].scenario[1].recommendedWeight = 120

\* -------------------------------------------------------------- C13, C14
AllSummaries == analyzeOut[1].likert \o OptionSummaries

RecordedOptions(itemId, field) ==
  Carried([i \in 1..Len(SelectSeq(analyzeIn, LAMBDA r : r.itemId = itemId)) |->
             SelectSeq(analyzeIn, LAMBDA r : r.itemId = itemId)[i][field]])

\* the multiplier of the bucket the average of `values` falls into: below
\* limits[1], below limits[2], ..., otherwise
BucketOf(values, limits, multipliers) ==
  LET below == {k \in 1..Len(limits) : SumSeq(values) < limits[k] * Len(values)}
  IN IF below = {} THEN multipliers[Len(multipliers)]
     ELSE multipliers[CHOOSE k \in below : \A j \in below : k <= j]

StatedConfidenceMultiplier(confidences) ==
  IF confidences = <<>> THEN 100
  ELSE BucketOf(confidences, <<30, 50, 70, 85>>, <<80, 90, 100, 105, 110>>)

\* C13: confidence multiplier.  After an analysis the effective weight of
\* every summary is its recommendedWeight times the time multiplier times a
\* confidence multiplier of 0.8 / 0.9 / 1.0 / 1.05 / 1.1 for an average
\* confidence < 0.3 / < 0.5 / < 0.7 / < 0.85 / otherwise, and of 1.0 when
\* none of the item's records carries a confidence.
C13_ConfidenceMultiplier ==
  analyzeOut # <<>> =>
    \A i \in 1..Len(AllSummaries) :
      /\ AllSummaries[i].effectiveWeight.recommended = AllSummaries[i].recommendedWeight
      /\ AllSummaries[i].effectiveWeight.multiplier
           = CalculateTimeMultiplier(AllSummaries[i].averageResponseTimeMs)
               * StatedConfidenceMultiplier(
                   RecordedOptions(AllSummaries[i].itemId, "confidence"))

StatedTimeMultiplier(times) ==
  IF times = <<>> THEN 100
  ELSE BucketOf(times, <<1500, 2500, 4500, 6500>>, <<85, 93, 100, 105, 110>>)

\* C14 as stated: time multiplier.  After an analysis the effective weight
\* of every summary holds a time multiplier of 0.85 / 0.93 / 1.00 / 1.05 /
\* 1.10 for an average response time < 1500 / < 2500 / < 4500 / < 6500 ms /
\* otherwise, and of 1.0 when none of the item's records carries a time.
C14_TimeMultiplier_Stated ==
  analyzeOut # <<>> =>
    \A i \in 1..Len(AllSummaries) :
      AllSummaries[i].effectiveWeight.multiplier
        = StatedTimeMultiplier(RecordedOptions(AllSummaries[i].itemId, "responseTimeMs"))
            * CalculateConfidenceMultiplier(AllSummaries[i].averageConfidence)

\* C14 amended: the buckets apply to an average above 0; the multiplier is
\* 1.0 when no record carries a time and also when the average of the
\* carried times is 0 or less.
C14_TimeMultiplier ==
  analyzeOut # <<>> =>
    \A i \in 1..Len(AllSummaries) :
      LET times == RecordedOptions(AllSummaries[i].itemId, "responseTimeMs")
      IN AllSummaries[i].effectiveWeight.multiplier
           = (IF SumSeq(times) <= 0 THEN 100 ELSE StatedTimeMultiplier(times))
               * CalculateConfidenceMultiplier(AllSummaries[i].averageConfidence)

\* one record with 1000 ms and one without a time: average 1000, 0.85; both
\* carry a confidence of 0.6 (multiplier 1.0)
C14_Witness ==
  /\ analyzeOut # <<>>
  /\ Len(analyzeIn) = 2
  /\ RecordedOptions(<<"L1">>, "responseTimeMs") = <<1000>>
  /\ RecordedOptions(<<"L1">>, "confidence") = <<60, 40>>
  /\ analyzeOut[1].likert[1].effectiveWeight.multiplier = 85 * 100

\* ------------------------------------------------------------------- C20
\* the respondents who answered the item and at least one other item, in
\* ascending order
PairedRespondents(itemId) ==
  {p \in {analyzeIn[i].respondentId : i \in 1..Len(analyzeIn)} :
     /\ \E i \in 1..Len(analyzeIn) :
          analyzeIn[i].respondentId = p /\ analyzeIn[i].itemId = itemId
     /\ \E i \in 1..Len(analyzeIn) :
          analyzeIn[i].respondentId = p /\ analyzeIn[i].itemId # itemId}

RECURSIVE Ascending(_)
Ascending(set) ==
  IF set = {} THEN <<>>
  ELSE LET least == CHOOSE x \in set : \A y \in set : x <= y
       IN <<least>> \o Ascending(set \ {least})

\* the respondent's mean on the item, and the mean of the respondent's
\* values on other items
MeanOn(p, itemId) ==
  LET own == SelectSeq(analyzeIn, LAMBDA r : r.respondentId = p /\ r.itemId = itemId)
  IN Frac(SumSeq(Values(own)), Len(own))
MeanOff(p, itemId) ==
  LET other == SelectSeq(analyzeIn, LAMBDA r : r.respondentId = p /\ r.itemId # itemId)
  IN Frac(SumSeq(Values(other)), Len(other))

ZeroVariance(fracs) ==
  \A i, j \in 1..Len(fracs) : fracs[i].n * fracs[j].d = fracs[j].n * fracs[i].d

\* Pearson's r of integer vectors as
\*   (n Sxy - Sx Sy) / sqrt((n Sxx - Sx Sx) (n Syy - Sy Sy))
TextbookPearson(x, y) ==
  [num |-> Len(x) * DotProduct(x, y) - SumSeq(x) * SumSeq(y),
   rad |-> (Len(x) * DotProduct(x, x) - SumSeq(x) * SumSeq(x))
             * (Len(y) * DotProduct(y, y) - SumSeq(y) * SumSeq(y))]

\* num / sqrt(rad) as its sign and its square in lowest terms
Canonical(r) ==
  [sign |-> IF r.num > 0 THEN 1 ELSE IF r.num < 0 THEN -1 ELSE 0,
   n |-> (r.num * r.num) \div Gcd(r.num * r.num, r.rad),
   d |-> r.rad \div Gcd(r.num * r.num, r.rad)]

\* C20: item-total correlation.  After an analysis the correlation that a
\* Likert summary reports is undefined when fewer than 3 respondents
\* answered both the item and another item, or when the respondents' means
\* on the item, or their means on their other items, are all equal; in
\* every other case it is defined and equals Pearson's r of the two
\* vectors of means.  (An evaluation of the model raises no exception; the
\* code divides only by counts of non-empty groups.)
C20_ItemTotalCorrelation ==
  analyzeOut # <<>> =>
    \A i \in 1..Len(analyzeOut[1].likert) :
      LET s == analyzeOut[1].likert[i]
          paired == Ascending(PairedRespondents(s.itemId))
          xs == [k \in 1..Len(paired) |-> MeanOn(paired[k], s.itemId)]
          ys == [k \in 1..Len(paired) |-> MeanOff(paired[k], s.itemId)]
      IN IF Len(paired) < 3 \/ ZeroVariance(xs) \/ ZeroVariance(ys)
         THEN s.itemTotalCorrelation = <<>>
         ELSE /\ s.itemTotalCorrelation # <<>>
              /\ Canonical(s.itemTotalCorrelation[1])
                   = Canonical(TextbookPearson(Numerators(xs), Numerators(ys)))

\* ------------------------------------------------------------------- C25
\* the axis has no observation in the stats
Unobserved(q, stats) == q.axis \notin DOMAIN stats \/ stats[q.axis].count = 0

\* C25: unexplored axes first.  Whenever a candidate of a call is on an
\* axis without observations, the item the call returns is on an axis
\* without observations.
C25_UnexploredFirst ==
  (pickOut # <<>> /\ \E q \in Range(StatedCandidates(pickIn)) :
                       Unobserved(q, pickIn.stats))
    => /\ pickOut[1] # <<>>
       /\ Unobserved(pickOut[1][1], pickIn.stats)

\* ------------------------------------------------------------------- C26
\* |4 - sum / count| as a fraction
Distance(stat) == [num |-> Abs(4 * stat.count - stat.sum), den |-> stat.count]
ObservedChoices == {c \in StatChoices : c.count > 0}
\* the stats with the axis at another observed average
StatsWith(stats, axis, stat) ==
  [a \in DOMAIN stats \cup {axis} |-> IF a = axis THEN stat ELSE stats[a]]

\* C26: gain monotonicity.  For two items with the same relatedCategories
\* whose axes have observations, the item whose axis average is at least as
\* far from 4 has at least the gain of the other, whether the two averages
\* come from one stats map or from two; and no gain is negative (the
\* related weights of the pool are >= 0).
C26_GainMonotone ==
  pickOut # <<>> =>
    /\ \A q \in Range(LikertPool) :
         computeInformationGain(q, pickIn.stats).num >= 0
    /\ \A q1, q2 \in Range(LikertPool) : \A c \in ObservedChoices :
         (/\ q1.relatedCategories = q2.relatedCategories
          /\ ~Unobserved(q1, pickIn.stats)
          /\ ~FracLess(Distance(pickIn.stats[q1.axis]), Distance(c)))
           => ~FracLess(computeInformationGain(q1, pickIn.stats),
                        computeInformationGain(
                          q2, StatsWith(pickIn.stats, q2.axis, c)))

\* a call has ranked two candidates without related categories, the one on
\* the axis of average 7 before the one on the axis of average 3.5
C26_Witness ==
  /\ pickOut # <<>>
  /\ pickOut[1] # <<>>
  /\ \E q \in Range(StatedCandidates(pickIn)) :
       /\ q # pickOut[1][1]
       /\ q.relatedCategories = pickOut[1][1].relatedCategories
       /\ ~Unobserved(q, pickIn.stats)
       /\ ~Unobserved(pickOut[1][1], pickIn.stats)
       /\ Distance(pickIn.stats[pickOut[1][1].axis]) = [num |-> 3, den |-> 1]
       /\ Distance(pickIn.stats[q.axis]) = [num |-> 1, den |-> 2]
       /\ FracLess(computeInformationGain(q, pickIn.stats),
                   computeInformationGain(pickOut[1][1], pickIn.stats))

\* ------------------------------------------------------------------- C30
\* the answers to questions of the list on the axis
OnAxis(questions, answers, axis) ==
  SelectSeq(answers, LAMBDA e : \E q \in Range(questions) :
                                  q.id = e.id /\ q.axis = axis)
StatedNormal(questions, e) ==
  IF (CHOOSE q \in Range(questions) : q.id = e.id).polarity = "reverse"
  THEN 8 - e.value ELSE e.value
RECURSIVE StatedSum(_, _)
StatedSum(questions, entries) ==
  IF entries = <<>> THEN 0
  ELSE StatedNormal(questions, entries[1]) + StatedSum(questions, Tail(entries))
StatedStats(questions, answers) ==
  [a \in {q.axis : q \in Range(questions)} |->
     [sum |-> StatedSum(questions, OnAxis(questions, answers, a)),
      count |-> Len(OnAxis(questions, answers, a))]]
ForeignAnswer == [id |-> "ZZ", value |-> 7]

\* the stats of the session are the stated ones, within count..7 * count,
\* and an answer under the id of no question changes nothing
AxisStatsAsStated ==
  /\ likertStats = StatedStats(questionBank.likert, likertAnswers)
  /\ \A a \in DOMAIN likertStats :
       /\ likertStats[a].count <= likertStats[a].sum
       /\ likertStats[a].sum <= 7 * likertStats[a].count
  /\ recomputeAxisStats(questionBank.likert, Append(likertAnswers, ForeignAnswer))
       = likertStats
  /\ recomputeAxisStats(questionBank.likert, <<ForeignAnswer>> \o likertAnswers)
       = likertStats

\* C30: axis stats of a session.  In every state of a session the stats
\* handed to the selector hold, for every axis of the question list, the
\* number of answered Likert items of that axis as count and the sum of
\* their polarity-normalized values as sum, so that count <= sum <= 7 *
\* count; an answer whose id matches no question is ignored; and the step
\* in which the selector puts an item on the screen changes neither the
\* question list nor the answers, and with them not the stats.
C30_AxisStats ==
  /\ []AxisStatsAsStated
  /\ [][(currentLikertId = NULL /\ currentLikertId' # NULL)
          => /\ questionBank' = questionBank
             /\ likertAnswers' = likertAnswers
             /\ likertStats' = likertStats]_vars

\* two items are answered with 7, one of them of reverse polarity (sum 1,
\* count 1 on its axis), and the selector has put a third on the screen
C30_Witness ==
  /\ Len(likertAnswers) = 2
  /\ \A i \in 1..2 : likertAnswers[i].value = 7
  /\ currentLikertId # NULL
  /\ \E a \in DOMAIN likertStats : likertStats[a] = [sum |-> 1, count |-> 1]

\* ------------------------------------------------------------------- C27
\* the recorded entries of one forced-choice question
EntriesOf(questionId) == SelectSeq(forcedAnswers, LAMBDA e : e.key[1] = questionId)
Skipped(questionId) ==
  \E i \in 1..Len(forcedAnswers) : forcedAnswers[i].key = <<questionId, "SKIP">>

\* C27: one forced-choice answer per question.  In every state of a session
\* each forced-choice question of the bank has at most one recorded entry
\* and at most one entry that adds to the scores, and the entries of a
\* skipped question add nothing to the category and tag scores.
C27_OneForcedAnswer ==
  \A q \in Range(questionBank.forcedChoice) :
    /\ Len(EntriesOf(q.id)) <= 1
    /\ Len(SelectSeq(EntriesOf(q.id),
                     LAMBDA e : ForcedAdds(questionBank, e) # <<>>)) <= 1
    /\ Skipped(q.id) =>
         /\ AllAdds(questionBank, EntriesOf(q.id), "forced") = <<>>
         /\ AllTagAdds(questionBank, EntriesOf(q.id), "forced") = <<>>

\* ------------------------------------------------------------------ C28
\* what a second Apply of the same report with the same tolerance would
\* decide for the catalog file at `path` as it now stands
Reapplied(path) ==
  ApplyToFile(files[path], applyRun.report[path], applyRun.tolerance)

\* C28: the applier is idempotent.  When Apply has completed, every option
\* of a catalog it wrote that a summary of the report targets has
\* |primary.weight - recommendedWeight| < tolerance (a primary without a
\* weight counting as 1.0), and applying the same report again with the
\* same tolerance to the files as they now are throws nothing, updates
\* nothing and leaves every tree as it is.
C28_Idempotent ==
  (applyRun # <<>> /\ applyRun.pc = "done") =>
    \A path \in Paths :
      /\ Written(path) =>
           \A k \in 1..Len(applyRun.report[path]) :
             Targets(files[path].root, applyRun.report[path][k].itemId) =>
               Abs(StatedWeight(PrimaryAt(files[path].root,
                                          applyRun.report[path][k].itemId))
                     - applyRun.report[path][k].recommendedWeight)
                 < applyRun.tolerance
      /\ Reapplied(path).outcome # "threw"
      /\ Reapplied(path).updated = 0
      /\ Reapplied(path).outcome = "ok" => Reapplied(path).root = files[path].root

\* a completed run that changed two weights of the forced-choice catalog
\* and one of the scenario catalog
C28_Witness ==
  /\ applyRun # <<>>
  /\ applyRun.pc = "done"
  /\ applyRun.printed[1] = [forced |-> 2, scenario |-> 1]
  /\ applyRun.before.forced = Document(ForcedTree(JNum(108)))
  /\ Reapplied("forced").outcome = "ok"
  /\ Field(PrimaryAt(files.forced.root, <<"F1", "A">>), "weight") = JNum(103)
  /\ Field(PrimaryAt(files.forced.root, <<"F1", "B">>), "weight") = JNum(110)

\* ------------------------------------------------------------------ C24
\* the weights invocation i has stored: the options its summaries target
\* in a tree it read and then wrote back, whose weight was not within the
\* tolerance of the recommended one
Stored(i) ==
  {[path |-> path, itemId |-> writers[i].report[path][k].itemId,
    weight |-> writers[i].report[path][k].recommendedWeight] :
     <<path, k>> \in
       {<<p, n>> \in Paths \X (1..2) :
          /\ \E w \in 1..Len(writers[i].written) : writers[i].written[w] = p
          /\ n <= Len(writers[i].report[p])
          /\ Targets(writers[i].seen[p][1].root, writers[i].report[p][n].itemId)
          /\ Abs(StatedWeight(PrimaryAt(writers[i].seen[p][1].root,
                                        writers[i].report[p][n].itemId))
                   - writers[i].report[p][n].recommendedWeight)
               >= writers[i].tolerance}}

\* a weight invocation i stored is no longer in the file although the
\* other invocation has stored no weight of its own for that option
LostUpdate(i) ==
  LET mine == Stored(i)
      theirs == {[path |-> o.path, itemId |-> o.itemId] : o \in Stored(OtherWriter(i))}
  IN \E e \in mine :
       /\ [path |-> e.path, itemId |-> e.itemId] \notin theirs
       /\ StatedWeight(PrimaryAt(files[e.path].root, e.itemId)) # e.weight

Overlapped == \E i \in Writers : writers[i].overlapped

\* C24: single writer.  An update of one invocation is lost only when the
\* two invocations were at work at the same time: when one invocation took
\* all of its steps before the other took its first, every weight it
\* stored is still in the file unless the later invocation stored a weight
\* for the same option.  (That overlapping invocations do lose an update
\* is the state C24_Witness.)
C24_SingleWriter ==
  (writers # <<>> /\ ~Overlapped) => \A i \in Writers : ~LostUpdate(i)

\* both invocations completed, and the weight 1.10 invocation 1 stored for
\* F1|A is gone: invocation 2 read the file before that write and wrote
\* its own tree, with only F1|B changed, after it
C24_Witness ==
  /\ writers # <<>>
  /\ writers[1].pc = "done" /\ writers[2].pc = "done"
  /\ writers[1].printed[1].forced = 1 /\ writers[2].printed[1].forced = 1
  /\ writers[1].report.forced = <<Summary(<<"F1", "A">>, 110)>>
  /\ writers[2].report.forced = <<Summary(<<"F1", "B">>, 110)>>
  /\ LostUpdate(1)
  /\ Overlapped
  /\ Field(PrimaryAt(files.forced.root, <<"F1", "A">>), "weight") = JNum(100)
  /\ Field(PrimaryAt(files.forced.root, <<"F1", "B">>), "weight") = JNum(110)

\* ------------------------------------------------------------------ C21
\* the respondents with a record of a Likert item of the axis, the
\* summarized items of the axis and the sum of their variances
Backing(axis) ==
  {analyzeIn[i].respondentId :
     i \in {j \in 1..Len(analyzeIn) :
              \E q \in Range(AggBank.likert) :
                q.axis = axis /\ analyzeIn[j].itemId = <<q.id>>}}
Summarized(axis) == OfAxis(analyzeOut[1].likert, axis)
MeanVarianceZero(axis) == SumFracs(VariancesOf(Summarized(axis))).n = 0

\* C21: the alpha of an axis of the report is undefined if and only if the
\* axis has fewer than 2 summarized items, fewer than 2 respondents back
\* the axis, or the mean of the item variances is 0.
C21_AlphaDefined ==
  analyzeOut # <<>> =>
    \A axis \in DOMAIN analyzeOut[1].cronbachAlphaByAxis :
      analyzeOut[1].cronbachAlphaByAxis[axis] = <<>>
        <=> \/ Len(Summarized(axis)) < 2
            \/ Cardinality(Backing(axis)) < 2
            \/ MeanVarianceZero(axis)

\* ------------------------------------------------------------------ C29
Returned == alphaOut # <<>> /\ alphaOut[1] # <<>>

\* C29 as stated: whenever CronbachAlpha returns a value, the value is 0.
C29_AlphaZero ==
  Returned => alphaOut[1][1].n = 0 /\ alphaOut[1][1].residue = 0

\* C29: whenever CronbachAlpha returns a value, the value is what is left
\* of 0 after rounding, whatever the item variances are: the fraction the
\* formula stands for is 0, and the double is 0 or differs from 0 by the
\* rounding of k * (sum / k).
C29_AlphaZeroRounded ==
  Returned => alphaOut[1][1].n = 0 /\ alphaOut[1][1].d # 0

\* three items of different variances, and alpha is 0
C29_Witness ==
  /\ Returned
  /\ alphaIn.itemVariances = <<Frac(18, 1), Frac(1, 2), Frac(8, 1)>>
  /\ alphaOut[1][1].n = 0
  /\ alphaOut[1][1].residue = 0

\* ------------------------------------------------------------------ C22
\* the rows of the log recorded under questionId|optionKey, the sections
\* of the report and the sample variance as a fraction
RowsOf(parts) == Values(RecordsOf(analyzeIn, parts))
OptionSections == {"forcedChoice", "scenario"}
SquareSum(values) == SumSeq([i \in 1..Len(values) |-> values[i] * values[i]])
SampleVariance(values) ==
  IF Len(values) = 1 THEN Frac(0, 1)
  ELSE Frac(Len(values) * SquareSum(values) - SumSeq(values) * SumSeq(values),
            Len(values) * (Len(values) - 1))
SameFrac(a, b) == a.n * b.d = b.n * a.d
Summarises(summary, parts) ==
  /\ summary.itemId = parts
  /\ SameFrac(summary.mean, Frac(SumSeq(RowsOf(parts)), Len(RowsOf(parts))))
  /\ SameFrac(summary.variance, SampleVariance(RowsOf(parts)))

\* C22: every forced-choice and scenario option of the catalog with at
\* least one row under questionId|optionKey has exactly one ItemSummary in
\* its section of the report, with the mean and the Bessel-corrected sample
\* variance of those rows (0 for a single row).
C22_OptionStatistics ==
  analyzeOut # <<>> =>
    \A section \in OptionSections :
      \A item \in Range(AnalyzeCatalog[section]) :
        \A option \in Range(item.options) :
          RowsOf(<<item.id, option.key>>) # <<>> =>
            /\ Cardinality({k \in 1..Len(analyzeOut[1][section]) :
                              analyzeOut[1][section][k].itemId
                                = <<item.id, option.key>>}) = 1
            /\ \E k \in 1..Len(analyzeOut[1][section]) :
                 Summarises(analyzeOut[1][section][k], <<item.id, option.key>>)

\* ------------------------------------------------------------------ C23
\* what the log holds of one respondent: the places of their records, of
\* their Likert answers, and of the records that carry a time or a
\* confidence
RowsBy(respondentId) ==
  {j \in 1..Len(analyzeIn) : analyzeIn[j].respondentId = respondentId}
LikertRowsBy(respondentId) ==
  {j \in RowsBy(respondentId) :
     analyzeIn[j].itemId \in {<<q.id>> : q \in Range(AnalyzeCatalog.likert)}}
TimedRowsBy(respondentId) ==
  {j \in RowsBy(respondentId) : analyzeIn[j].responseTimeMs # <<>>}
RatedRowsBy(respondentId) ==
  {j \in RowsBy(respondentId) : analyzeIn[j].confidence # <<>>}
RECURSIVE TotalTime(_)
TotalTime(rows) ==
  IF rows = {} THEN 0
  ELSE analyzeIn[CHOOSE j \in rows : TRUE].responseTimeMs[1]
       + TotalTime(rows \ {CHOOSE j \in rows : TRUE})
RECURSIVE TotalConfidence(_)
TotalConfidence(rows) ==
  IF rows = {} THEN 0
  ELSE analyzeIn[CHOOSE j \in rows : TRUE].confidence[1]
       + TotalConfidence(rows \ {CHOOSE j \in rows : TRUE})

FlagsAsStated(r) ==
  /\ r.flagStraightliner
       <=> /\ Cardinality(LikertRowsBy(r.respondentId)) >= 10
           /\ Cardinality({analyzeIn[j].value :
                             j \in LikertRowsBy(r.respondentId)}) <= 2
  /\ r.flagFastResponder
       <=> /\ TimedRowsBy(r.respondentId) # {}
           /\ TotalTime(TimedRowsBy(r.respondentId))
                < 1500 * Cardinality(TimedRowsBy(r.respondentId))
  /\ r.flagLowConfidence
       <=> /\ RatedRowsBy(r.respondentId) # {}
           /\ TotalConfidence(RatedRowsBy(r.respondentId))
                < 40 * Cardinality(RatedRowsBy(r.respondentId))

\* C23: the quality report lists every respondent of the log exactly once
\* and nobody else, each with straightliner iff >= 10 Likert answers of
\* <= 2 distinct values, fastResponder iff an average response time exists
\* and is < 1500 ms, lowConfidence iff an average confidence exists and is
\* < 0.4; flaggedRespondents is the list of those with at least one flag.
C23_QualityFlags ==
  analyzeOut # <<>> =>
    LET quality == analyzeOut[1].responseQuality
    IN /\ \A j \in 1..Len(analyzeIn) :
            Cardinality({k \in 1..Len(quality.respondents) :
                           quality.respondents[k].respondentId
                             = analyzeIn[j].respondentId}) = 1
       /\ \A k \in 1..Len(quality.respondents) :
            /\ RowsBy(quality.respondents[k].respondentId) # {}
            /\ FlagsAsStated(quality.respondents[k])
       /\ Range(quality.flaggedRespondents)
            = {r \in Range(quality.respondents) :
                 r.flagStraightliner \/ r.flagFastResponder \/ r.flagLowConfidence}
       /\ Len(quality.flaggedRespondents)
            = Cardinality(Range(quality.flaggedRespondents))

\* respondent 1 has exactly ten Likert answers (and a forced-choice row) of
\* two values and is a straightliner only; respondent 2 has the average
\* time 1500 and the average confidence 0.3 and has low confidence only
C23_Witness ==
  /\ analyzeOut # <<>>
  /\ Len(analyzeIn) = 13
  /\ Cardinality(LikertRowsBy(1)) = 10
  /\ {analyzeIn[j].value : j \in LikertRowsBy(1)} = {3, 5}
  /\ TotalTime(TimedRowsBy(2)) = 3000 /\ Cardinality(TimedRowsBy(2)) = 2
  /\ TotalConfidence(RatedRowsBy(2)) = 60 /\ Cardinality(RatedRowsBy(2)) = 2
  /\ Len(analyzeOut[1].responseQuality.respondents) = 2
  /\ analyzeOut[1].responseQuality.respondents[1].flagStraightliner
  /\ ~analyzeOut[1].responseQuality.respondents[1].flagFastResponder
  /\ ~analyzeOut[1].responseQuality.respondents[1].flagLowConfidence
  /\ ~analyzeOut[1].responseQuality.respondents[2].flagStraightliner
  /\ ~analyzeOut[1].responseQuality.respondents[2].flagFastResponder
  /\ analyzeOut[1].responseQuality.respondents[2].flagLowConfidence
  /\ Len(analyzeOut[1].responseQuality.flaggedRespondents) = 2

====
